---- MODULE Spec2Model ----
(***************************************************************************)
(* Model of the Bac Bo Telegram bot (src/main.py).                         *)
(*                                                                         *)
(* Part 1: enviar_mensagem_resiliente, the resilient send helper           *)
(*         (specification SpecSend).                                       *)
(* Part 2: atualizar_resultados_elephant, the outcome feed with its        *)
(*         10-second cache, called from the posting loop thread and from   *)
(*         command-handler threads (specification SpecFeed).               *)
(* Part 3: estrategia_alta_assertividade, the prediction picker            *)
(*         (specification SpecPick).                                       *)
(* Part 4: enviar_palpite, the posting loop (specification SpecPlacar).    *)
(* Part 5: BotMonitor's restart bookkeeping (specification SpecMonitor).   *)
(* Part 6: handle_reaction (specification SpecReact) and the delivery of   *)
(*         a prediction (specification SpecEntrega).                       *)
(* Part 7: the main thread: the restart wrapper, main() and its polling    *)
(*         loop, the signal handler (specification SpecMain).              *)
(* Part 8: the posting loop and the monitor loop as threads of the         *)
(*         process, up to their end (specification SpecLacos).             *)
(* Part 9: the admin gate: register_admin and handle_admin_action          *)
(*         (specification SpecAdmin).                                      *)
(* Part 10: the scoring of a miss interleaved with picker calls of the     *)
(*         command handlers (specification SpecGales).                     *)
(* Part 11: the picker's reads of the outcome cache while another thread   *)
(*         refreshes it (specification SpecLeitura).                       *)
(* Part 12: the /palpite command and its own scoring of the pick           *)
(*         (specification SpecPalpiteCmd).                                 *)
(* Part 13: the waiting message of a posting cycle (specification          *)
(*         SpecEspera).                                                    *)
(* Part 14: /start on concurrent handler threads (specification SpecStart).*)
(***************************************************************************)
EXTENDS Integers, Sequences, FiniteSets, TLC

(***************************************************************************)
(* Bounds of the model.                                                    *)
(***************************************************************************)
\* longest target list handed to the send helper
MaxTargets == 3
\* largest retry_count handed to the send helper (default 3; line 1940 passes 5)
MaxRetry == 4
\* largest "retry after N" hint the Telegram API answers with
MaxHint == 3

\* longest list of rounds (API) or result items (HTML) the site answers with,
\* besides one list longer than the window
MaxRounds == 1
\* calls of atualizar_resultados_elephant each thread makes
MaxCalls == 1
\* the clock (time.time(), whole seconds) when the module is loaded
StartTime == 40
\* the clock advances in steps of TickStep seconds up to MaxTime
TickStep == 5
MaxTime == 60

\* longest window the refresh hands to the picker
MaxHist == 5

\* iterations of the posting loop
MaxCiclos == 5

\* steps of the monitor's clock, each of half the restart window
MaxPassos == 2
\* calls of register_restart
MaxReinicios == 5

\* predictions the posting loop stores
MaxMsgs == 1
\* callbacks the worker threads take
MaxReacoes == 3

\* users who write to the bot
MaxUsuarios == 3
\* admin_ callbacks handled
MaxAtos == 2

\* Durations are counted in ticks of 1/32 second, so that the 1.5x growth of
\* the backoff (2, 3, 4.5, 6.75, 10.125, 15) is exact integer arithmetic.
Scale == 2 ^ 5

Secs(n) == n * Scale

Min(a, b) == IF a <= b THEN a ELSE b

\* Python's None for sent_msg; a delivered message is identified by the chat
\* that accepted it (chat ids are positive).
None == 0

VARIABLES
    \* ---- enviar_mensagem_resiliente: parameters and locals ----
    chat_ids,       \* the target list (after the isinstance wrapping)
    retry_count,    \* attempts per chat
    timeout,        \* initial backoff, in seconds
    sm_pc,          \* "idle" | "loop" | "return"
    idx,            \* position of chat_id in chat_ids (1-based)
    attempt,        \* loop variable of the inner for
    backoff,        \* current backoff, in ticks
    sent_msg,       \* None or the delivered message
    success,        \* the success flag
    resultado,      \* the tuple <<sent_msg, success>> the call returned (line 246)
    \* ---- observation of the calls made on the environment ----
    n_sends,        \* per target position: bot.send_message calls made
    last_ev,        \* the last send attempt: target, attempt, outcome, time slept after it
    n_after_ok,     \* bot.send_message calls made after one had succeeded
    doubled         \* the backoff of the current chat went through the 2x branch (line 231)

VARIABLES
    \* ---- the outcome feed ----
    now,                    \* time.time(), in whole seconds
    resultados_anteriores,  \* the global cache record
    rng,                    \* the state of the global random generator
    f_pc,                   \* per thread: where it is in atualizar_resultados_elephant
    tempo_atual,            \* per thread: local tempo_atual
    has_data,               \* per thread: 'data' in locals()
    has_soup,               \* per thread: 'soup' in locals()
    novo_resultado,         \* per thread: local novo_resultado
    recent_results,         \* per thread: local recent_results
    retorno,                \* per thread: the record the call returned
    \* ---- observation ----
    tiers_run,              \* per thread: the tiers the call has entered, in order
    seed_minute,            \* per thread: the minute the call seeded the generator with
    n_calls,                \* per thread: calls of the function made so far
    last_gap,               \* seconds between the last refresh and the one it replaced
    sim_log                 \* the simulated (outcome, window) pairs stored, with their minute

varsFeed == <<now, resultados_anteriores, rng, f_pc, tempo_atual, has_data, has_soup,
              novo_resultado, recent_results, retorno, tiers_run, seed_minute,
              n_calls, last_gap, sim_log>>

varsSend == <<chat_ids, retry_count, timeout, sm_pc, idx, attempt, backoff,
              sent_msg, success, resultado, n_sends, last_ev, n_after_ok, doubled>>

VARIABLES
    \* ---- estrategia_alta_assertividade ----
    e_pc,               \* "idle" | "done"
    contagem_gales,     \* global contagem_gales
    modo_defensivo,     \* global modo_defensivo
    ultimo_palpite,     \* local ultimo_palpite (NoPalpite: None)
    hora_atual,         \* local hora_atual
    minuto_atual,       \* local minuto_atual
    retorno_e,          \* the tuple the call returned
    \* ---- observation ----
    ramo,               \* the branch that returned
    excecao             \* the body raised and the except clause of line 725 ran

varsPick == <<e_pc, contagem_gales, modo_defensivo, ultimo_palpite, hora_atual,
              minuto_atual, retorno_e, ramo, excecao>>

VARIABLES
    \* ---- enviar_palpite ----
    p_pc,                   \* "placar" | "reinicio" | "palpite": the block to run next;
                            \* "fim": the loop ended; "morta": an exception left the
                            \* thread; "parada": the process ended
    acertos, erros, total,  \* globals: the score
    greens_seguidos, reds_seguidos, max_greens_seguidos, max_reds_seguidos,
    consecutive_errors,     \* global consecutive_errors (Unbound until line 1052 runs)
    PADRAO_ATUAL,           \* global PADRAO_ATUAL
    tempo_passado,          \* seconds from ultimo_placar to now, counted up to 600
    old_definido,           \* the locals old_acertos ... old_max_reds are bound
    \* ---- observation ----
    ciclos,                 \* iterations that reached gerar_palpite (line 1019)
    placar_devido,          \* this iteration found tempo_passado >= 600
    placar_enviados,        \* scoreboards this iteration's block delivered
    limite_no_ciclo,        \* this iteration found acertos >= 150 and erros >= 50
    ult_pontuacao,          \* "none" | "acerto" | "erro" | "excecao": how the last iteration ended
    contra_real,            \* the last prediction was scored against a real outcome
    reds_reais              \* misses in a row scored against real outcomes

varsPlacar == <<p_pc, acertos, erros, total, greens_seguidos, reds_seguidos,
                max_greens_seguidos, max_reds_seguidos, consecutive_errors, PADRAO_ATUAL,
                tempo_passado, old_definido, ciclos, placar_devido,
                placar_enviados, limite_no_ciclo, ult_pontuacao, contra_real, reds_reais>>

VARIABLES
    \* ---- BotMonitor ----
    m_now,              \* time.time(), in seconds
    restart_times,      \* self.restart_times
    restart_count,      \* self.restart_count
    c_pc,               \* can_restart: "idle" | "filtrado"
    c_now,              \* can_restart: local now
    c_filtrado,         \* can_restart: the list built at line 80, not yet stored
    pode,               \* what can_restart last returned ("none": running or never called)
    r_pc,               \* per thread, register_restart: "idle" | "append" | "ler" | "escrever"
    r_lido,             \* per thread: the restart_count read by += 1
    \* ---- observation ----
    chamadas,           \* the times of all register_restart calls
    esperado            \* whether fewer than restart_limit of them lay in the hour before
                        \* the last can_restart

varsMonitor == <<m_now, restart_times, restart_count, c_pc, c_now, c_filtrado, pode,
                 r_pc, r_lido, chamadas, esperado>>

VARIABLES
    \* ---- handle_reaction ----
    prediction_messages,    \* the store: entry i belongs to the message with id i
    h_pc,                   \* per worker: "idle" | "ler" | "escrever" | "responder" | "fim"
    h_mid,                  \* per worker: message_id
    h_tipo,                 \* per worker: reaction_type
    h_lido,                 \* per worker: the count read by += 1
    resposta,               \* per worker: what bot.answer_callback_query was given
    h_editou,               \* per worker: bot.edit_message_text was called and returned
    n_callbacks             \* callbacks taken so far

varsReact == <<prediction_messages, h_pc, h_mid, h_tipo, h_lido, resposta, h_editou,
               n_callbacks>>

VARIABLES
    \* ---- the main thread ----
    running,            \* bot_monitor.running
    sinal,              \* "none" | "marcado" (line 123 ran) | "tratado" (line 124 ran)
    g_pc,               \* where the main thread is
    m_retry_count,      \* main(): local retry_count
    m_retry_delay,      \* main(): local retry_delay, in ticks
    w_retry_count,      \* the wrapper's retry_count
    w_retry_delay,      \* the wrapper's retry_delay, in ticks
    exit_status,        \* the exit status of the process (SemEstado: still running)
    \* ---- observation ----
    n_main,             \* calls of main() made
    viu_401,            \* a polling failure took the branch of line 2126
    main_apos_401,      \* main() was called again after that
    esgotado            \* main() reached sys.exit(1) at line 2157

varsMain == <<running, sinal, g_pc, m_retry_count, m_retry_delay, w_retry_count,
              w_retry_delay, exit_status, n_main, viu_401, main_apos_401, esgotado>>

VARIABLES
    \* ---- monitor_thread_func ----
    ml_pc               \* "teste" | "verifica" | "reinicia" | "polling" | "processa";
                        \* "fim" | "morta" | "parada" as for p_pc

varsLacos == <<ml_pc>>

VARIABLES
    \* ---- the admin gate ----
    admin_chat_ids,     \* bot_monitor.admin_chat_ids
    reg_pend,           \* per user: calls of register_admin between line 100 and line 101
    comandos,           \* the users who have sent /status, /monitor or /status24
    a_ult,              \* the last admin_ callback handled: user, action, what came of it
    n_atos,             \* admin_ callbacks handled
    logs_para,          \* the users the log was sent to
    polling_reinicios   \* restarts of the polling made by the admin handler

varsAdmin == <<admin_chat_ids, reg_pend, comandos, a_ult, n_atos, logs_para, polling_reinicios>>

VARIABLES
    \* ---- the delivery of a prediction ----
    PRIMEIRO_USUARIO_ID,    \* the global of line 268
    ult_entrega             \* what the last delivery did: the channel that accepted (0:
                            \* none), whether after a rate-limit wait, what became of
                            \* the private message ("pendente": the cycle is before
                            \* line 1249), and the prediction sent

varsEntrega == <<PRIMEIRO_USUARIO_ID, ult_entrega>>

VARIABLES
    \* ---- the scoring of a miss, step by step ----
    gl_pc               \* the posting loop is at: "gera" (line 1019) | "pontua" (line
                        \* 1051) | "adapta" (line 1111)

varsGales == <<gl_pc>>

VARIABLES
    \* ---- the reads of the cache by estrategia_alta_assertividade ----
    e_lidos             \* the cache records the picker call of thread "cmd" has
                        \* subscripted so far, at lines 530, 531 and 532 in turn

VARIABLES
    \* ---- the thread of /palpite ----
    cmd_pc,             \* "idle" | "gerado" | "consultado" | "pontuado" | "excecao"
    cmd_palpite,        \* local palpite: what gerar_palpite_com_animacao returned
    cmd_resultado_real, \* local resultado_real ("none": None)
    cmd_acertou,        \* local acertou
    cmd_excecao         \* the exception of the last run that the except clause of
                        \* line 1642 caught ("none": none so far)

varsPalpiteCmd == <<cmd_pc, cmd_palpite, cmd_resultado_real, cmd_acertou, cmd_excecao>>

VARIABLES
    \* ---- the waiting message of a cycle ----
    ult_espera,         \* the waiting message of the last delivery: the place in
                        \* canal_ids it was addressed to (0: not reached yet),
                        \* whether it was sent and whether it was deleted
    \* ---- the threads of /start ----
    st_pc               \* per user: where the handler of that user's /start is:
                        \* "idle" | "atribui" (between lines 1341 and 1342) | "resto"

varsFinais == <<e_lidos, varsPalpiteCmd, ult_espera, st_pc>>

\* the variables of Part 9 and later
varsDemais == <<varsAdmin, varsEntrega, varsGales, varsFinais>>

\* the variables of Parts 1 to 6
varsBase == <<varsSend, varsFeed, varsPick, varsPlacar, varsMonitor, varsReact>>

\* the variables of the parts after them
varsResto == <<varsMain, varsLacos, varsDemais>>

vars == <<varsBase, varsResto>>

(***************************************************************************)
(* The outcome of one bot.send_message call.  An exception is modelled by  *)
(* the features of its text that the handler inspects:                     *)
(*   rate : the text contains "Too Many Requests: retry after"             *)
(*   hint : the integer after "retry after ", or -1 when int() raises      *)
(*   cnf  : the lower-cased text contains "chat not found"                 *)
(* The texts enumerated are those of the Telegram Bot API: a 429 with its  *)
(* hint, a 429 whose hint does not parse, a 400 "chat not found", and any  *)
(* other error (timeout, network, 403, ...).                               *)
(***************************************************************************)
Ok == [ok |-> TRUE, rate |-> FALSE, hint |-> -1, cnf |-> FALSE]

ErrRateHint(n) == [ok |-> FALSE, rate |-> TRUE, hint |-> n, cnf |-> FALSE]

ErrRateNoHint == [ok |-> FALSE, rate |-> TRUE, hint |-> -1, cnf |-> FALSE]

ErrChatNotFound == [ok |-> FALSE, rate |-> FALSE, hint |-> -1, cnf |-> TRUE]

ErrOther == [ok |-> FALSE, rate |-> FALSE, hint |-> -1, cnf |-> FALSE]

SendOutcomes ==
    {Ok, ErrRateNoHint, ErrChatNotFound, ErrOther} \cup {ErrRateHint(n) : n \in {0, MaxHint}}

\* lines 203-239: which branch of the try/except handles the outcome
Classify(e) ==
    IF e.ok THEN "ok"
    ELSE IF e.rate THEN (IF e.hint >= 0 THEN "rate_hint" ELSE "rate_nohint")
    ELSE IF e.cnf THEN "cnf"
    ELSE "other"

\* mutant: the hint of a rate-limit error is ignored and the backoff slept
SleepFor_IgnoresHint(kind, e, b) ==
    CASE kind \in {"rate_hint", "rate_nohint", "other"} -> b
      [] OTHER -> 0

\* lines 226, 230, 240: the time.sleep of each branch, in ticks (0: no sleep)
SleepFor(kind, e, b) ==
    CASE kind = "rate_hint"   -> Secs(e.hint + 1)
      [] kind = "rate_nohint" -> b
      [] kind = "other"       -> b
      [] OTHER                -> 0

\* mutant: the doubling of the backoff is not capped
GrowBackoff_Uncapped(kind, b) ==
    CASE kind = "rate_nohint" -> b * 2
      [] kind = "other"       -> Min((b * 3) \div 2, Secs(15))
      [] OTHER                -> b

\* lines 231, 241: the growth of the backoff after the sleep
GrowBackoff(kind, b) ==
    CASE kind = "rate_nohint" -> Min(b * 2, Secs(30))
      [] kind = "other"       -> Min((b * 3) \div 2, Secs(15))
      [] OTHER                -> b

\* mutant: "chat not found" is retried like any other error (no break at line 236)
InnerContinues_RetriesNotFound(kind, att, rc) ==
    /\ kind # "ok"
    /\ att + 1 < rc

\* mutant: a rate-limit wait with a hint earns the chat one attempt more
InnerContinues_RateWaitIsFree(kind, att, rc) ==
    /\ kind \notin {"ok", "cnf"}
    /\ (att + 1 < rc \/ (kind = "rate_hint" /\ att < rc))

\* lines 202, 214, 236: the inner for goes on with the same chat
InnerContinues(kind, att, rc) ==
    /\ kind \notin {"ok", "cnf"}
    /\ att + 1 < rc

\* mutant: the outer for does not break once a send has succeeded
OuterContinues_IgnoresSuccess(succ, i, n) == i < n

\* lines 195-197: the outer for takes the next chat
OuterContinues(succ, i, n) ==
    /\ ~succ
    /\ i < n

\* line 189-190: a single chat id is wrapped into a list
AsList(arg) == IF arg.is_list THEN arg.val ELSE <<arg.val>>

NoEvent == [target |-> 0, att |-> 0, err |-> ErrOther, kind |-> "none",
            slept |-> 0, before |-> 0, doubled |-> FALSE]

InitSend ==
    /\ chat_ids = <<>>
    /\ retry_count = 3
    /\ timeout = 2
    /\ sm_pc = "idle"
    /\ idx = 0
    /\ attempt = 0
    /\ backoff = 0
    /\ sent_msg = None
    /\ success = FALSE
    /\ resultado = <<None, FALSE>>
    /\ n_sends = <<>>
    /\ last_ev = NoEvent
    /\ n_after_ok = 0
    /\ doubled = FALSE

\* lines 174, 189-200: the call, up to the first iteration of the outer for
enviar_Call ==
    /\ sm_pc = "idle"
    /\ \E arg \in {[is_list |-> TRUE, val |-> [k \in 1..n |-> k]] : n \in 0..MaxTargets}
                  \cup {[is_list |-> FALSE, val |-> c] : c \in 1..MaxTargets},
          rc \in 1..MaxRetry :
          /\ chat_ids' = AsList(arg)
          /\ retry_count' = rc
          /\ n_sends' = [k \in 1..Len(AsList(arg)) |-> 0]
          /\ IF Len(AsList(arg)) > 0
                THEN sm_pc' = "loop" /\ idx' = 1
                ELSE sm_pc' = "return" /\ idx' = 0
    /\ timeout' = 2
    /\ attempt' = 0
    /\ backoff' = Secs(2)
    /\ sent_msg' = None
    /\ success' = FALSE
    /\ last_ev' = NoEvent
    /\ n_after_ok' = 0
    /\ doubled' = FALSE
    /\ resultado' = <<None, FALSE>>
    /\ UNCHANGED <<varsFeed, varsPick, varsPlacar, varsMonitor, varsReact>>
    /\ UNCHANGED varsResto

\* lines 202-241: one iteration of the inner for: the send, the handling of
\* its exception, the sleep, and the move to the next attempt or chat
enviar_Attempt ==
    /\ sm_pc = "loop"
    /\ \E e \in SendOutcomes :
        LET kind == Classify(e)
            succ == success \/ kind = "ok"
        IN  /\ n_sends' = [n_sends EXCEPT ![idx] = @ + 1]
            /\ n_after_ok' = IF success THEN n_after_ok + 1 ELSE n_after_ok
            /\ last_ev' = [target |-> idx, att |-> attempt, err |-> e, kind |-> kind,
                           slept |-> SleepFor(kind, e, backoff), before |-> backoff,
                           doubled |-> doubled]
            /\ success' = succ
            /\ sent_msg' = IF kind = "ok" THEN chat_ids[idx] ELSE sent_msg
            /\ IF InnerContinues(kind, attempt, retry_count)
                  THEN /\ attempt' = attempt + 1
                       /\ backoff' = GrowBackoff(kind, backoff)
                       /\ doubled' = (doubled \/ kind = "rate_nohint")
                       /\ UNCHANGED <<idx, sm_pc>>
                  ELSE IF OuterContinues(succ, idx, Len(chat_ids))
                  THEN /\ idx' = idx + 1
                       /\ attempt' = 0
                       /\ backoff' = Secs(timeout)
                       /\ doubled' = FALSE
                       /\ UNCHANGED sm_pc
                  ELSE /\ sm_pc' = "return"
                       /\ backoff' = GrowBackoff(kind, backoff)
                       /\ doubled' = (doubled \/ kind = "rate_nohint")
                       /\ UNCHANGED <<idx, attempt>>
    /\ UNCHANGED <<chat_ids, retry_count, timeout, resultado>>
    /\ UNCHANGED <<varsFeed, varsPick, varsPlacar, varsMonitor, varsReact>>
    /\ UNCHANGED varsResto

\* lines 243-246: register the activity and return (sent_msg, success)
enviar_Return ==
    /\ sm_pc = "return"
    /\ resultado' = <<sent_msg, success>>
    /\ sm_pc' = "idle"
    /\ UNCHANGED <<chat_ids, retry_count, timeout, idx, attempt, backoff,
                   sent_msg, success, n_sends, last_ev, n_after_ok, doubled>>
    /\ UNCHANGED <<varsFeed, varsPick, varsPlacar, varsMonitor, varsReact>>
    /\ UNCHANGED varsResto

NextSend ==
    \/ enviar_Call
    \/ enviar_Attempt
    \/ enviar_Return


(***************************************************************************)
(* Part 2: atualizar_resultados_elephant.                                  *)
(*                                                                         *)
(* The function runs on the posting loop's thread (line 1034) and on       *)
(* command-handler threads (lines 527, 1562) with no lock: each thread     *)
(* has its own locals, and the cache record and the random generator are   *)
(* shared.  A step of the model is one statement group of the function     *)
(* between two points where another thread can run.                        *)
(***************************************************************************)
Threads == {"loop", "cmd"}

\* the three outcomes: the emojis of lines 324-328
Vermelho == "vermelho"

Azul == "azul"

Laranja == "laranja"

\* the key order of contador (line 445)
CoresOrdem == <<Vermelho, Azul, Laranja>>

Cores == {Vermelho, Azul, Laranja}

\* line 344: the cache's time to live, in seconds
TTL == 10

\* line 426: the seed changes every 60 seconds
SeedPeriod == 60

\* lines 361, 395, 441: the window keeps 10 outcomes
WindowMax == 10

\* lines 324-328, 364: COLOR_MAPPING.get(result_color, Laranja)
COLOR_MAPPING(raw) ==
    CASE raw = "red"    -> Vermelho
      [] raw = "blue"   -> Azul
      [] raw = "orange" -> Laranja
      [] OTHER          -> Laranja

\* lines 397-402: the colour of a result item from its CSS classes
ItemColor(cls) ==
    IF cls = "result-red" THEN Vermelho
    ELSE IF cls = "result-blue" THEN Azul
    ELSE Laranja

\* the values of a round's 'result' field ("green": a colour the table lacks)
RawColors == {"red", "blue", "orange", "green"}

\* the class of a .result-item element
ItemClasses == {"result-red", "result-blue", "result-tie"}

SeqsUpTo(S, n) == UNION {[1..k -> S] : k \in 0..n}

\* a list longer than the window, to exercise the [:10] slices
LongRounds == [i \in 1..(WindowMax + 1) |-> IF i % 3 = 1 THEN "blue" ELSE IF i % 3 = 2 THEN "red" ELSE "green"]

LongItems == [i \in 1..(WindowMax + 1) |-> IF i % 2 = 1 THEN "result-red" ELSE "result-tie"]

\* lines 353-374: what the request to BACBO_RESULTS_API can come back with
ApiResponses ==
    {[kind |-> k, rounds |-> <<>>] : k \in {"exception", "non200", "badjson", "badshape"}}
    \cup {[kind |-> "rounds", rounds |-> r] : r \in SeqsUpTo(RawColors, MaxRounds) \cup {LongRounds}}

\* lines 382-415: what the request to BACBO_GAME_URL can come back with
HtmlResponses ==
    {[kind |-> k, items |-> <<>>] : k \in {"exception", "non200", "nocontainer"}}
    \cup {[kind |-> "items", items |-> r] : r \in SeqsUpTo(ItemClasses, MaxRounds) \cup {LongItems}}

\* s[:n]
Take(s, n) == SubSeq(s, 1, Min(Len(s), n))

\* lines 360-365: the outcomes of the first 10 rounds
ApiRecent(resp) == [i \in 1..Len(Take(resp.rounds, WindowMax)) |-> COLOR_MAPPING(resp.rounds[i])]

\* lines 392-404: the outcomes of the first 10 result items
HtmlRecent(resp) == [i \in 1..Len(Take(resp.items, WindowMax)) |-> ItemColor(resp.items[i])]

\* line 357: data is bound once response.json() has returned
ApiBindsData(resp) == resp.kind \in {"badshape", "rounds"}

\* lines 355-374: the API tier yields a result
ApiSucceeds(resp) == resp.kind = "rounds" /\ Len(resp.rounds) > 0

\* line 385: soup is bound once the page came back with status 200
HtmlBindsSoup(resp) == resp.kind \in {"nocontainer", "items"}

\* lines 384-415: the HTML tier yields a result
HtmlSucceeds(resp) == resp.kind = "items" /\ Len(resp.items) > 0

\* mutant: the page is scraped whether or not the API tier yielded a result
AfterApi_AlwaysScrapes(ok) == "html"

\* lines 368-380: a result goes on to the update at line 439; any exception of
\* the tier enters the except block, whose first statement is the scraping tier
AfterApi(ok) == IF ok THEN "update" ELSE "html"

\* lines 407-420: a result goes on to the update; any exception of the tier
\* enters the except block, which simulates
AfterHtml(ok) == IF ok THEN "update" ELSE "sim_seed"

(***************************************************************************)
(* The random generator.  random.seed(k) puts the generator in a state     *)
(* that depends on k alone and every draw advances it; the Mersenne        *)
(* Twister is replaced by a full-period congruential generator on 0..99.   *)
(* random.choices(cores, weights=[0.35, 0.35, 0.30]) bisects the           *)
(* cumulative weights with the number drawn.                               *)
(***************************************************************************)
RngSeed(k) == (37 * k + 11) % 100

RngStep(s) == (21 * s + 7) % 100

RECURSIVE RngIter(_, _)
RngIter(s, n) == IF n = 0 THEN s ELSE RngIter(RngStep(s), n - 1)

\* lines 429-430: cores = [Vermelho, Azul, Laranja] with weights 35/35/30
Choice(s) ==
    IF s < 35 THEN Vermelho
    ELSE IF s < 70 THEN Azul
    ELSE Laranja

\* line 426: int(time.time()) // 60
SeedOf(t) == t \div SeedPeriod

\* lines 445-447: contador
Contador(ultimos) == [c \in Cores |-> Cardinality({i \in 1..Len(ultimos) : ultimos[i] = c})]

\* lines 449-450: frequencia, each value the fraction num/den
Frequencia(ultimos) == [c \in Cores |-> [num |-> Contador(ultimos)[c], den |-> Len(ultimos)]]

\* as Tendencia, taking the last key with the largest count
Tendencia_UltimoMaximo(ultimos) ==
    LET cnt == Contador(ultimos)
        best == CHOOSE i \in 1..3 :
                    /\ \A j \in 1..3 : cnt[CoresOrdem[j]] <= cnt[CoresOrdem[i]]
                    /\ \A j \in (i + 1)..3 : cnt[CoresOrdem[j]] < cnt[CoresOrdem[i]]
    IN  CoresOrdem[best]

\* line 453: max(contador.keys(), key=...): the first key with the largest count
Tendencia(ultimos) ==
    LET cnt == Contador(ultimos)
        best == CHOOSE i \in 1..3 :
                    /\ \A j \in 1..3 : cnt[CoresOrdem[j]] <= cnt[CoresOrdem[i]]
                    /\ \A j \in 1..(i - 1) : cnt[CoresOrdem[j]] < cnt[CoresOrdem[i]]
    IN  CoresOrdem[best]

\* line 466: the source named from the locals that are bound
Fonte(data_bound, soup_bound) ==
    IF data_bound THEN "API Elephant Bet"
    ELSE IF soup_bound THEN "Web Scraping"
    ELSE "Simulacao (Fallback)"

\* lines 293-298: the hard-coded record the module starts with ("none": no such key)
RegistroInicial ==
    [ultimos_10 |-> <<Vermelho, Azul, Azul, Laranja, Vermelho, Laranja, Azul, Vermelho,
                      Azul, Laranja>>,
     frequencia |-> (Vermelho :> [num |-> 33, den |-> 100]
                     @@ Azul :> [num |-> 40, den |-> 100]
                     @@ Laranja :> [num |-> 27, den |-> 100]),
     tendencia |-> Azul,
     ultima_atualizacao |-> StartTime,
     resultado_atual |-> "none",
     fonte |-> "none",
     tier |-> "init"]

\* no record: the call has not returned
NoRegistro == [RegistroInicial EXCEPT !.tier = "none"]

\* lines 439-467: the record built from the locals; tier (not a key of the
\* program's record) names the tier that produced novo and recent
NovoRegistro(recent, novo, tempo, data_bound, soup_bound, tier) ==
    [ultimos_10 |-> Take(recent, WindowMax),
     frequencia |-> Frequencia(Take(recent, WindowMax)),
     tendencia |-> Tendencia(Take(recent, WindowMax)),
     ultima_atualizacao |-> tempo,
     resultado_atual |-> novo,
     fonte |-> Fonte(data_bound, soup_bound),
     tier |-> tier]

\* lines 343-344: the cached record is still fresh
CacheFresh(tempo, registro) == tempo - registro.ultima_atualizacao < TTL

\* the tier whose result the thread's locals hold
LastTier(t) == tiers_run[t][Len(tiers_run[t])]

InitFeed ==
    /\ now = StartTime
    /\ resultados_anteriores = RegistroInicial
    /\ rng = 0
    /\ f_pc = [t \in Threads |-> "idle"]
    /\ tempo_atual = [t \in Threads |-> 0]
    /\ has_data = [t \in Threads |-> FALSE]
    /\ has_soup = [t \in Threads |-> FALSE]
    /\ novo_resultado = [t \in Threads |-> "none"]
    /\ recent_results = [t \in Threads |-> <<>>]
    /\ retorno = [t \in Threads |-> NoRegistro]
    /\ tiers_run = [t \in Threads |-> <<>>]
    /\ seed_minute = [t \in Threads |-> -1]
    /\ n_calls = [t \in Threads |-> 0]
    /\ last_gap = TTL
    /\ sim_log = {}

\* time passes
Tick ==
    /\ now + TickStep <= MaxTime
    /\ now' = now + TickStep
    /\ UNCHANGED <<resultados_anteriores, rng, f_pc, tempo_atual, has_data, has_soup,
                   novo_resultado, recent_results, retorno, tiers_run, seed_minute,
                   n_calls, last_gap, sim_log>>
    /\ UNCHANGED <<varsSend, varsPick, varsPlacar, varsMonitor, varsReact>>
    /\ UNCHANGED varsResto

\* lines 340-347: the call reads the clock and tests the cache's age
atualizar_Call(t) ==
    /\ f_pc[t] = "idle"
    /\ tempo_atual' = [tempo_atual EXCEPT ![t] = now]
    /\ f_pc' = [f_pc EXCEPT ![t] =
                  IF CacheFresh(now, resultados_anteriores) THEN "return" ELSE "api"]
    /\ has_data' = [has_data EXCEPT ![t] = FALSE]
    /\ has_soup' = [has_soup EXCEPT ![t] = FALSE]
    /\ novo_resultado' = [novo_resultado EXCEPT ![t] = "none"]
    /\ recent_results' = [recent_results EXCEPT ![t] = <<>>]
    /\ tiers_run' = [tiers_run EXCEPT ![t] = <<>>]
    /\ UNCHANGED seed_minute
    /\ n_calls[t] < MaxCalls
    /\ n_calls' = [n_calls EXCEPT ![t] = @ + 1]
    /\ retorno' = [retorno EXCEPT ![t] = NoRegistro]
    /\ UNCHANGED <<now, resultados_anteriores, rng, last_gap, sim_log>>
    /\ UNCHANGED <<varsSend, varsPick, varsPlacar, varsMonitor, varsReact>>
    /\ UNCHANGED varsResto

\* lines 351-377: the JSON API tier
atualizar_Api(t) ==
    /\ f_pc[t] = "api"
    /\ \E resp \in ApiResponses :
        /\ has_data' = [has_data EXCEPT ![t] = ApiBindsData(resp)]
        /\ recent_results' = [recent_results EXCEPT ![t] =
                                IF ApiBindsData(resp) THEN ApiRecent(resp) ELSE @]
        /\ novo_resultado' = [novo_resultado EXCEPT ![t] =
                                IF ApiSucceeds(resp) THEN ApiRecent(resp)[1] ELSE @]
        /\ f_pc' = [f_pc EXCEPT ![t] = AfterApi(ApiSucceeds(resp))]
    /\ tiers_run' = [tiers_run EXCEPT ![t] = Append(@, "api")]
    /\ UNCHANGED <<now, resultados_anteriores, rng, tempo_atual, has_soup, retorno,
                   seed_minute, n_calls, last_gap, sim_log>>
    /\ UNCHANGED <<varsSend, varsPick, varsPlacar, varsMonitor, varsReact>>
    /\ UNCHANGED varsResto

\* lines 380-418: the HTML scraping tier
atualizar_Html(t) ==
    /\ f_pc[t] = "html"
    /\ \E resp \in HtmlResponses :
        /\ has_soup' = [has_soup EXCEPT ![t] = HtmlBindsSoup(resp)]
        /\ recent_results' = [recent_results EXCEPT ![t] =
                                IF resp.kind = "items" THEN HtmlRecent(resp) ELSE @]
        /\ novo_resultado' = [novo_resultado EXCEPT ![t] =
                                IF HtmlSucceeds(resp) THEN HtmlRecent(resp)[1] ELSE @]
        /\ f_pc' = [f_pc EXCEPT ![t] = AfterHtml(HtmlSucceeds(resp))]
    /\ tiers_run' = [tiers_run EXCEPT ![t] = Append(@, "html")]
    /\ UNCHANGED <<now, resultados_anteriores, rng, tempo_atual, has_data, retorno,
                   seed_minute, n_calls, last_gap, sim_log>>
    /\ UNCHANGED <<varsSend, varsPick, varsPlacar, varsMonitor, varsReact>>
    /\ UNCHANGED varsResto

\* lines 420-426: the simulation tier seeds the shared generator
atualizar_SimSeed(t) ==
    /\ f_pc[t] = "sim_seed"
    /\ rng' = RngSeed(SeedOf(now))
    /\ seed_minute' = [seed_minute EXCEPT ![t] = SeedOf(now)]
    /\ tiers_run' = [tiers_run EXCEPT ![t] = Append(@, "sim")]
    /\ f_pc' = [f_pc EXCEPT ![t] = "sim_novo"]
    /\ UNCHANGED <<now, resultados_anteriores, tempo_atual, has_data, has_soup,
                   novo_resultado, recent_results, retorno, n_calls, last_gap, sim_log>>
    /\ UNCHANGED <<varsSend, varsPick, varsPlacar, varsMonitor, varsReact>>
    /\ UNCHANGED varsResto

\* lines 429-430: the simulated current outcome is drawn
atualizar_SimNovo(t) ==
    /\ f_pc[t] = "sim_novo"
    /\ rng' = RngStep(rng)
    /\ novo_resultado' = [novo_resultado EXCEPT ![t] = Choice(RngStep(rng))]
    /\ f_pc' = [f_pc EXCEPT ![t] = "sim_window"]
    /\ UNCHANGED <<now, resultados_anteriores, tempo_atual, has_data, has_soup,
                   recent_results, retorno, tiers_run, seed_minute, n_calls,
                   last_gap, sim_log>>
    /\ UNCHANGED <<varsSend, varsPick, varsPlacar, varsMonitor, varsReact>>
    /\ UNCHANGED varsResto

\* lines 433-437: the simulated window of 10 outcomes is drawn
atualizar_SimWindow(t) ==
    /\ f_pc[t] = "sim_window"
    /\ rng' = RngIter(rng, WindowMax)
    /\ recent_results' = [recent_results EXCEPT ![t] =
                            [i \in 1..WindowMax |-> Choice(RngIter(rng, i))]]
    /\ f_pc' = [f_pc EXCEPT ![t] = "update"]
    /\ UNCHANGED <<now, resultados_anteriores, tempo_atual, has_data, has_soup,
                   novo_resultado, retorno, tiers_run, seed_minute, n_calls,
                   last_gap, sim_log>>
    /\ UNCHANGED <<varsSend, varsPick, varsPlacar, varsMonitor, varsReact>>
    /\ UNCHANGED varsResto

\* lines 439-470: the new record is built from the locals and assigned to the global
atualizar_Update(t) ==
    /\ f_pc[t] = "update"
    /\ resultados_anteriores' =
         NovoRegistro(recent_results[t], novo_resultado[t], tempo_atual[t],
                      has_data[t], has_soup[t], LastTier(t))
    /\ last_gap' = tempo_atual[t] - resultados_anteriores.ultima_atualizacao
    /\ sim_log' = IF LastTier(t) = "sim"
                     THEN sim_log \cup {<<seed_minute[t], novo_resultado[t], recent_results[t]>>}
                     ELSE sim_log
    /\ f_pc' = [f_pc EXCEPT ![t] = "return"]
    /\ UNCHANGED <<now, rng, tempo_atual, has_data, has_soup, novo_resultado,
                   recent_results, retorno, tiers_run, seed_minute, n_calls>>
    /\ UNCHANGED <<varsSend, varsPick, varsPlacar, varsMonitor, varsReact>>
    /\ UNCHANGED varsResto

\* lines 345, 476: return resultados_anteriores (the global, as it is now)
atualizar_Return(t) ==
    /\ f_pc[t] = "return"
    /\ retorno' = [retorno EXCEPT ![t] = resultados_anteriores]
    /\ f_pc' = [f_pc EXCEPT ![t] = "idle"]
    /\ has_data' = [has_data EXCEPT ![t] = FALSE]
    /\ has_soup' = [has_soup EXCEPT ![t] = FALSE]
    /\ novo_resultado' = [novo_resultado EXCEPT ![t] = "none"]
    /\ recent_results' = [recent_results EXCEPT ![t] = <<>>]
    /\ tempo_atual' = [tempo_atual EXCEPT ![t] = 0]
    /\ seed_minute' = [seed_minute EXCEPT ![t] = -1]
    /\ UNCHANGED <<now, resultados_anteriores, rng, tiers_run, n_calls, last_gap, sim_log>>
    /\ UNCHANGED <<varsSend, varsPick, varsPlacar, varsMonitor, varsReact>>
    /\ UNCHANGED varsResto

NextFeed ==
    \/ Tick
    \/ \E t \in Threads : atualizar_Call(t)
    \/ \E t \in Threads : atualizar_Api(t)
    \/ \E t \in Threads : atualizar_Html(t)
    \/ \E t \in Threads : atualizar_SimSeed(t)
    \/ \E t \in Threads : atualizar_SimNovo(t)
    \/ \E t \in Threads : atualizar_SimWindow(t)
    \/ \E t \in Threads : atualizar_Update(t)
    \/ \E t \in Threads : atualizar_Return(t)

(***************************************************************************)
(* Part 3: estrategia_alta_assertividade, the prediction picker            *)
(* (specification SpecPick).  The call is one action; what it reads from   *)
(* its environment is drawn there: the prior pick exported by the optional *)
(* module prediction_generator (None when the module is absent, lines      *)
(* 517-524), the window the refresh of line 527 leaves in the cache, and   *)
(* the wall clock (lines 535-536).                                         *)
(***************************************************************************)

\* lines 504-511: the labels, in the order of the list estrategias
LaranjaAzul == "Laranja e Azul"

LaranjaVermelho == "Laranja e Vermelho"

SoLaranja == "Laranja"

SoAzul == "Azul"

SoVermelho == "Vermelho"

AzulVermelho == "Azul e Vermelho"

estrategias == <<LaranjaAzul, LaranjaVermelho, SoLaranja, SoAzul, SoVermelho, AzulVermelho>>

\* line 272: cores_combinadas[0], a label that is not in estrategias
AzulLaranja == "Azul e Laranja"

\* Python's None for ultimo_palpite
NoPalpite == "None"

\* lines 277-289
resultado_mapa ==
    (Azul :> (SoAzul :> TRUE @@ SoLaranja :> FALSE @@ SoVermelho :> FALSE
              @@ LaranjaAzul :> TRUE @@ LaranjaVermelho :> FALSE @@ AzulVermelho :> TRUE))
    @@ (Vermelho :> (SoAzul :> FALSE @@ SoLaranja :> FALSE @@ SoVermelho :> TRUE
              @@ LaranjaAzul :> FALSE @@ LaranjaVermelho :> TRUE @@ AzulVermelho :> TRUE))
    @@ (Laranja :> (SoAzul :> FALSE @@ SoLaranja :> TRUE @@ SoVermelho :> FALSE
              @@ LaranjaAzul :> TRUE @@ LaranjaVermelho :> TRUE @@ AzulVermelho :> FALSE))

\* line 480
max_gales == 1

\* the elements of a sequence
Range(s) == {s[i] : i \in 1..Len(s)}

\* s without its elements equal to x (list.remove on a list without duplicates)
Remove(s, x) == SelectSeq(s, LAMBDA y : y # x)

\* s[-k:]
LastK(s, k) == IF Len(s) <= k THEN s ELSE SubSeq(s, Len(s) - k + 1, Len(s))

\* the windows the refresh can leave in the cache
Historicos == UNION {[1..n -> Cores] : n \in 1..MaxHist}

\* time.strftime('%H'): the hours on both sides of each bucket's limits
Horas == {0, 5, 6, 11, 12, 17, 18, 23}

\* time.strftime('%M'): the minutes on both sides of the limits 20 and 40
Minutos == {0, 19, 20, 39, 40}

\* lines 540-542: defensive mode is entered when the gale limit is reached
ModoApos(gales, md) == md \/ gales >= max_gales

GalesApos(gales) == IF gales >= max_gales THEN 0 ELSE gales

\* lines 546-548: estrategias without the prior pick
EstrategiasFiltradas(ultimo) ==
    IF ultimo \in Range(estrategias) /\ Len(estrategias) > 1
    THEN Remove(estrategias, ultimo)
    ELSE estrategias

\* line 554
TemSequencia(ult) ==
    /\ Len(ult) >= 3
    /\ ult[Len(ult)] = ult[Len(ult) - 1]
    /\ ult[Len(ult) - 1] = ult[Len(ult) - 2]

\* lines 584-589: the colours with no occurrence in ultimos[-5:], in the key
\* order of contador
Ausentes(ult) ==
    SelectSeq(CoresOrdem, LAMBDA c : Contador(LastK(ult, 5))[c] = 0)

\* lines 583, 590
TemAusencia(ult) == Len(ult) >= 5 /\ Ausentes(ult) # <<>>

\* line 591
CorAusente(ult) == Ausentes(ult)[1]

\* as Ramo, with the absence analysis placed before the streak detection
Ramo_AusenciaPrimeiro(ult, hora) ==
    IF TemAusencia(ult) THEN "ausencia"
    ELSE IF TemSequencia(ult) THEN "sequencia"
    ELSE IF 6 <= hora /\ hora < 12 THEN "manha"
    ELSE IF 12 <= hora /\ hora < 18 THEN "tarde"
    ELSE IF 18 <= hora /\ hora < 24 THEN "noite"
    ELSE "madrugada"

\* lines 554, 583-590, 618, 627, 653, 666: the branch that returns.  The else
\* of line 666 takes every remaining hour, so lines 690-723 are never reached.
Ramo(ult, hora) ==
    IF TemSequencia(ult) THEN "sequencia"
    ELSE IF TemAusencia(ult) THEN "ausencia"
    ELSE IF 6 <= hora /\ hora < 12 THEN "manha"
    ELSE IF 12 <= hora /\ hora < 18 THEN "tarde"
    ELSE IF 18 <= hora /\ hora < 24 THEN "noite"
    ELSE "madrugada"

\* lines 559-580
PalpiteSequencia(cor, md, hora, minuto) ==
    IF md
    THEN IF cor = Azul THEN SoVermelho
         ELSE IF cor = Vermelho THEN SoAzul
         ELSE IF hora >= 12 THEN SoVermelho ELSE SoAzul
    ELSE IF cor = Azul THEN LaranjaVermelho
         ELSE IF cor = Vermelho THEN LaranjaAzul
         ELSE IF minuto % 2 = 0 THEN LaranjaVermelho ELSE LaranjaAzul

\* as PalpiteAusencia, betting the pairs in defensive mode too
PalpiteAusencia_SemModo(cor, md) ==
    IF cor = Laranja THEN SoLaranja
    ELSE IF cor = Azul THEN LaranjaAzul
    ELSE LaranjaVermelho

\* lines 594-610
PalpiteAusencia(cor, md) ==
    IF md
    THEN IF cor = Laranja THEN SoLaranja
         ELSE IF cor = Azul THEN SoAzul
         ELSE SoVermelho
    ELSE IF cor = Laranja THEN SoLaranja
         ELSE IF cor = Azul THEN LaranjaAzul
         ELSE LaranjaVermelho

\* lines 630-651
PalpiteTarde(ult, tend, minuto) ==
    IF Len(ult) >= 3
    THEN IF ult[Len(ult)] # ult[Len(ult) - 1]
         THEN IF ult[Len(ult)] = Azul THEN LaranjaVermelho
              ELSE IF ult[Len(ult)] = Vermelho THEN LaranjaAzul
              ELSE IF minuto % 2 = 0 THEN LaranjaVermelho ELSE LaranjaAzul
         ELSE IF tend = Azul THEN LaranjaAzul
              ELSE IF tend = Vermelho THEN LaranjaVermelho
              ELSE SoLaranja
    ELSE LaranjaAzul

\* lines 674-679
PalpiteMadrugada(minuto) ==
    IF minuto < 20 THEN LaranjaAzul
    ELSE IF minuto < 40 THEN LaranjaVermelho
    ELSE SoLaranja

\* lines 682-686: the labels random.choice can draw when the pick repeats
Remaining(palpite, ultimo) == Remove(EstrategiasFiltradas(ultimo), palpite)

\* lines 553-688: the labels the call can return (one, except where
\* random.choice draws from several); md is the mode after lines 540-542
Palpites(ult, tend, hora, minuto, ultimo, md) ==
    LET r == Ramo(ult, hora) IN
    CASE r = "sequencia" -> {PalpiteSequencia(ult[Len(ult)], md, hora, minuto)}
      [] r = "ausencia"  -> {PalpiteAusencia(CorAusente(ult), md)}
      [] r = "manha"     -> {IF md THEN SoAzul ELSE LaranjaAzul}
      [] r = "tarde"     -> {PalpiteTarde(ult, tend, minuto)}
      [] r = "noite"     ->
            {IF md THEN SoVermelho
             ELSE IF ultimo = LaranjaVermelho THEN LaranjaAzul ELSE LaranjaVermelho}
      [] OTHER ->
            IF md THEN {SoLaranja}
            ELSE IF PalpiteMadrugada(minuto) = ultimo
                    /\ Remaining(PalpiteMadrugada(minuto), ultimo) # <<>>
                 THEN Range(Remaining(PalpiteMadrugada(minuto), ultimo))
                 ELSE {PalpiteMadrugada(minuto)}

\* as FallbackEmergencia, drawing from cores_combinadas (line 272)
FallbackEmergencia_Combinadas == {AzulLaranja, AzulVermelho, LaranjaVermelho}

\* line 738: what random.choice draws from when the body raised and
\* prediction_generator cannot be imported
FallbackEmergencia == {LaranjaAzul, LaranjaVermelho}

\* lines 479-481: the module's globals; the call has not been made
InitPick ==
    /\ e_pc = "idle"
    /\ contagem_gales = 0
    /\ modo_defensivo = FALSE
    /\ ultimo_palpite = NoPalpite
    /\ hora_atual = 0
    /\ minuto_atual = 0
    /\ ramo = "none"
    /\ excecao = FALSE
    /\ retorno_e = <<NoPalpite, 0, FALSE>>

\* the globals as a call can find them: the posting loop raises contagem_gales
\* at line 1108 and resets it at line 1128, and an earlier call may have set
\* modo_defensivo (line 541)
InitPickGlobals ==
    /\ e_pc = "idle"
    /\ contagem_gales \in 0..max_gales
    /\ modo_defensivo \in BOOLEAN
    /\ ultimo_palpite = NoPalpite
    /\ hora_atual = 0
    /\ minuto_atual = 0
    /\ ramo = "none"
    /\ excecao = FALSE
    /\ retorno_e = <<NoPalpite, 0, FALSE>>

\* lines 502-688: one call whose body raises nothing
estrategia_alta_assertividade ==
    /\ e_pc = "idle"
    \* lines 540-542
    /\ modo_defensivo' = ModoApos(contagem_gales, modo_defensivo)
    /\ contagem_gales' = GalesApos(contagem_gales)
    \* line 527: the refresh leaves a window in the cache
    /\ \E ult \in Historicos :
         resultados_anteriores' = NovoRegistro(ult, ult[1], now, TRUE, FALSE, "api")
    \* lines 517-524, 535-536
    /\ \E ultimo \in {NoPalpite} \cup Range(estrategias), hora \in Horas, minuto \in Minutos :
         /\ ultimo_palpite' = ultimo
         /\ hora_atual' = hora
         /\ minuto_atual' = minuto
         /\ ramo' = Ramo(resultados_anteriores'.ultimos_10, hora)
         /\ \E p \in Palpites(resultados_anteriores'.ultimos_10,
                               resultados_anteriores'.tendencia,
                               hora, minuto, ultimo, modo_defensivo') :
              retorno_e' = <<p, contagem_gales', modo_defensivo'>>
    /\ excecao' = FALSE
    /\ e_pc' = "done"
    /\ UNCHANGED <<now, rng, f_pc, tempo_atual, has_data, has_soup, novo_resultado,
                   recent_results, retorno, tiers_run, seed_minute, n_calls, last_gap,
                   sim_log>>
    /\ UNCHANGED <<varsSend, varsPlacar, varsMonitor, varsReact>>
    /\ UNCHANGED varsResto

\* lines 725-738: the body raised; with prediction_generator absent the import
\* of line 731 raises ImportError and the emergency pick is drawn
estrategia_Excecao ==
    /\ e_pc = "idle"
    /\ excecao' = TRUE
    /\ \E depois \in BOOLEAN :
         \* the body raised after (or before) lines 540-542 ran
         /\ modo_defensivo' = IF depois THEN ModoApos(contagem_gales, modo_defensivo)
                                        ELSE modo_defensivo
         /\ contagem_gales' = IF depois THEN GalesApos(contagem_gales) ELSE contagem_gales
    /\ \E p \in FallbackEmergencia : retorno_e' = <<p, contagem_gales', modo_defensivo'>>
    /\ e_pc' = "done"
    /\ UNCHANGED <<ultimo_palpite, hora_atual, minuto_atual, ramo>>
    /\ UNCHANGED <<varsSend, varsFeed, varsPlacar, varsMonitor, varsReact>>
    /\ UNCHANGED varsResto

NextPick ==
    \/ estrategia_alta_assertividade
    \/ estrategia_Excecao

(***************************************************************************)
(* Part 4: the posting loop enviar_palpite: scoreboard, threshold reset    *)
(* and scoring (specification SpecPlacar).  One iteration of the while     *)
(* loop is three steps: the scoreboard block (lines 929-970), the reset    *)
(* block (lines 972-1016) and the prediction with its scoring, its post    *)
(* and its waits (lines 1019-1327); an exception ends the iteration in the *)
(* handler of lines 1328-1330.  Of the clock the loop uses only the        *)
(* seconds passed since ultimo_placar and whether they reach 600: the      *)
(* model keeps that difference, which the sleeps raise, up to 600.         *)
(***************************************************************************)

\* line 932: seconds between scoreboards
PlacarPeriodo == 600

\* line 974: the thresholds of the wholesale reset
LimiteAcertos == 150

LimiteErros == 50

\* line 1055: consecutive misses that trigger the baseline
LimiteErrosSeguidos == 5

\* line 918: canal_ids has three destinations
NumCanais == 3

\* line 963: sleep after a scoreboard; lines 1312-1327: sleeps after a post;
\* line 1330: sleep after an exception
EsperaPlacar == 30

EsperaPalpite == 25

EsperaErro == 30

\* consecutive_errors is no global of the module until line 1052 binds it
Unbound == -1

\* lines 1118-1123
ProximoPadrao(padrao) ==
    IF padrao = "COMBINACAO" THEN "ALTERNADO"
    ELSE IF padrao = "ALTERNADO" THEN "REPETIDO"
    ELSE "COMBINACAO"

Max(a, b) == IF a >= b THEN a ELSE b

\* lines 927-928: tempo_passado after a sleep of d seconds
Passa(t, d) == Min(t + d, PlacarPeriodo)

\* mutant: the loops go on whatever the flag says
ContinuaLaco_Sempre(r) == TRUE

\* lines 926 and 1974: while bot_monitor.running
ContinuaLaco(r) == r

\* mutant: the handlers catch the Telegram API's exception only
ApanhaException_SoDaApi(tipo) == tipo = "ApiTelegramException"

\* lines 1328, 1998, 2026 and 2037: 'except Exception' catches every class
\* but those that derive from BaseException alone
ApanhaException(tipo) == tipo \notin {"SystemExit", "KeyboardInterrupt", "GeneratorExit"}

\* lines 255-261, 924: the loop starts
PlacarInicial ==
    [acertos |-> 0, erros |-> 0, total |-> 0, greens_seguidos |-> 0, reds_seguidos |-> 0,
     max_greens_seguidos |-> 0, max_reds_seguidos |-> 0, consecutive_errors |-> Unbound,
     PADRAO_ATUAL |-> "COMBINACAO", tempo_passado |-> 0]

\* the loop after 23 hits in a row: 575 seconds since it started (23 waits
\* of 25 seconds)
PlacarApos23 ==
    [acertos |-> 23, erros |-> 0, total |-> 23, greens_seguidos |-> 23, reds_seguidos |-> 0,
     max_greens_seguidos |-> 23, max_reds_seguidos |-> 0, consecutive_errors |-> 0,
     PADRAO_ATUAL |-> "COMBINACAO", tempo_passado |-> 575]

\* the loop after 49 rounds of three hits and a miss and three more hits (199
\* predictions), 380 seconds after its last scoreboard
PlacarApos199 ==
    [acertos |-> 150, erros |-> 49, total |-> 199, greens_seguidos |-> 3, reds_seguidos |-> 0,
     max_greens_seguidos |-> 3, max_reds_seguidos |-> 1, consecutive_errors |-> 0,
     PADRAO_ATUAL |-> "ALTERNADO", tempo_passado |-> 380]

\* one miss later: the loop at the thresholds of line 974
PlacarApos200 ==
    [acertos |-> 150, erros |-> 50, total |-> 200, greens_seguidos |-> 0, reds_seguidos |-> 1,
     max_greens_seguidos |-> 3, max_reds_seguidos |-> 1, consecutive_errors |-> 1,
     PADRAO_ATUAL |-> "REPETIDO", tempo_passado |-> 405]

InitPlacarDe(e) ==
    /\ p_pc = "placar"
    /\ acertos = e.acertos
    /\ erros = e.erros
    /\ total = e.total
    /\ greens_seguidos = e.greens_seguidos
    /\ reds_seguidos = e.reds_seguidos
    /\ max_greens_seguidos = e.max_greens_seguidos
    /\ max_reds_seguidos = e.max_reds_seguidos
    /\ consecutive_errors = e.consecutive_errors
    /\ PADRAO_ATUAL = e.PADRAO_ATUAL
    /\ tempo_passado = e.tempo_passado
    /\ old_definido = FALSE
    /\ ciclos = 0
    /\ placar_devido = FALSE
    /\ placar_enviados = 0
    /\ limite_no_ciclo = FALSE
    /\ ult_pontuacao = "none"
    /\ contra_real = FALSE
    /\ reds_reais = 0

InitPlacar == InitPlacarDe(PlacarInicial)

\* the loop as it starts and as it stands after 23 and after 199 predictions
InitPlacarAlcancavel == \E e \in {PlacarInicial, PlacarApos23, PlacarApos199} : InitPlacarDe(e)

\* lines 926-970: the top of the loop and the scoreboard block; primeiro is the
\* position in canal_ids of the first destination that accepts the message
\* (0: every bot.send_message raised)
enviar_palpite_Placar ==
    /\ p_pc = "placar"
    /\ ContinuaLaco(running)
    /\ ciclos < MaxCiclos
    /\ IF tempo_passado >= PlacarPeriodo
       THEN \E primeiro \in 0..NumCanais :
              /\ placar_devido' = TRUE
              /\ placar_enviados' = IF primeiro > 0 THEN 1 ELSE 0
              \* line 970: ultimo_placar = agora, the time read before the sleep
              /\ tempo_passado' = IF primeiro > 0 THEN EsperaPlacar ELSE 0
       ELSE /\ placar_devido' = FALSE
            /\ placar_enviados' = 0
            /\ UNCHANGED tempo_passado
    /\ p_pc' = "reinicio"
    /\ limite_no_ciclo' = FALSE
    /\ UNCHANGED <<acertos, erros, total, greens_seguidos, reds_seguidos,
                   max_greens_seguidos, max_reds_seguidos, consecutive_errors,
                   PADRAO_ATUAL, old_definido, ciclos, ult_pontuacao, contra_real,
                   reds_reais>>
    /\ UNCHANGED <<varsSend, varsFeed, varsPick, varsMonitor, varsReact>>
    /\ UNCHANGED varsResto

\* lines 972-1016: the reset block.  The f-string of lines 976-988 reads the
\* locals old_acertos ... old_max_reds, which only lines 1000-1004 bind: while
\* they are unbound it raises UnboundLocalError and the handler of lines
\* 1328-1330 ends the iteration.
enviar_palpite_Reinicio ==
    /\ p_pc = "reinicio"
    /\ IF acertos >= LimiteAcertos /\ erros >= LimiteErros /\ total > 0
       THEN /\ limite_no_ciclo' = TRUE
            /\ IF old_definido
               THEN /\ acertos' = 0
                    /\ erros' = 0
                    /\ total' = 0
                    /\ greens_seguidos' = 0
                    /\ reds_seguidos' = 0
                    /\ max_greens_seguidos' = 0
                    /\ max_reds_seguidos' = 0
                    /\ p_pc' = "palpite"
                    /\ UNCHANGED <<tempo_passado, ciclos, ult_pontuacao>>
               ELSE /\ IF ApanhaException("UnboundLocalError")
                          THEN /\ tempo_passado' = Passa(tempo_passado, EsperaErro)
                               /\ p_pc' = "placar"
                          ELSE /\ p_pc' = "morta"
                               /\ UNCHANGED tempo_passado
                    /\ ult_pontuacao' = "excecao"
                    /\ UNCHANGED <<acertos, erros, total, greens_seguidos, reds_seguidos,
                                   max_greens_seguidos, max_reds_seguidos, ciclos>>
       ELSE /\ limite_no_ciclo' = FALSE
            /\ p_pc' = "palpite"
            /\ UNCHANGED <<acertos, erros, total, greens_seguidos, reds_seguidos,
                           max_greens_seguidos, max_reds_seguidos, tempo_passado, ciclos,
                           ult_pontuacao>>
    /\ UNCHANGED <<consecutive_errors, PADRAO_ATUAL, old_definido,
                   placar_devido, placar_enviados, contra_real, reds_reais>>
    /\ UNCHANGED <<varsSend, varsFeed, varsPick, varsMonitor, varsReact>>
    /\ UNCHANGED varsResto

\* lines 1051-1060: consecutive_errors and the baseline after a scoring against
\* a real outcome; the result is <<raised, consecutive_errors, acertos, erros,
\* total>>, total being the count line 1030 has already raised
ContaErrosSeguidos(acertou, ce, a, e, t) ==
    IF acertou THEN <<FALSE, 0, a, e, t>>
    ELSE IF ce = Unbound THEN <<TRUE, ce, a, e, t>>
    ELSE IF ce + 1 >= LimiteErrosSeguidos THEN <<FALSE, 0, 0, 5, 5>>
    ELSE <<FALSE, ce + 1, a, e, t>>

\* line 1100
AposErro(e) == e + 1

\* lines 1108-1128 and 1141: contagem_gales after a miss
GalesAposErro(g) == IF g + 1 >= max_gales THEN 0 ELSE g + 2

\* lines 1019-1330: the prediction, its scoring, its post and the waits.
\* palpite is the label gerar_palpite returned, real the 'resultado_atual' of
\* the record atualizar_resultados_elephant returned ("none": the record has no
\* such key, which only the record of lines 293-298 lacks), sorte the draw of
\* line 1063.
enviar_palpite_Palpite ==
    /\ p_pc = "palpite"
    /\ \E palpite \in Range(estrategias), real \in Cores \cup {"none"}, sorte \in BOOLEAN :
         /\ real = "none" => resultados_anteriores.resultado_atual = "none"
         /\ real # "none" => ~sorte
         /\ resultados_anteriores' =
               IF real = "none" THEN resultados_anteriores
               ELSE NovoRegistro(<<real>>, real, now, TRUE, FALSE, "api")
         /\ LET acertou == IF real = "none" THEN sorte ELSE resultado_mapa[real][palpite]
                md      == ModoApos(contagem_gales, modo_defensivo)
                g       == GalesApos(contagem_gales)
                conta   == IF real = "none"
                           THEN <<FALSE, consecutive_errors, acertos, erros, total + 1>>
                           ELSE ContaErrosSeguidos(acertou, consecutive_errors,
                                                   acertos, erros, total + 1)
            IN  /\ modo_defensivo' = md
                /\ contra_real' = (real # "none")
                /\ consecutive_errors' = conta[2]
                /\ total' = conta[5]
                /\ IF conta[1]
                   THEN \* NameError at line 1054
                        /\ ult_pontuacao' = "excecao"
                        /\ IF ApanhaException("NameError")
                           THEN /\ tempo_passado' = Passa(tempo_passado, EsperaErro)
                                /\ p_pc' = "placar"
                           ELSE /\ p_pc' = "morta"
                                /\ UNCHANGED tempo_passado
                        /\ contagem_gales' = g
                        /\ UNCHANGED <<acertos, erros, greens_seguidos, reds_seguidos,
                                       max_greens_seguidos, max_reds_seguidos,
                                       PADRAO_ATUAL, reds_reais>>
                   ELSE IF acertou
                   THEN /\ ult_pontuacao' = "acerto"
                        /\ acertos' = conta[3] + 1
                        /\ erros' = conta[4]
                        /\ greens_seguidos' = greens_seguidos + 1
                        /\ reds_seguidos' = 0
                        /\ max_greens_seguidos' = Max(max_greens_seguidos, greens_seguidos + 1)
                        /\ contagem_gales' = 0
                        /\ reds_reais' = 0
                        /\ tempo_passado' = Passa(tempo_passado, EsperaPalpite)
                        /\ p_pc' = "placar"
                        /\ UNCHANGED <<max_reds_seguidos, PADRAO_ATUAL>>
                   ELSE /\ ult_pontuacao' = "erro"
                        /\ acertos' = conta[3]
                        /\ erros' = AposErro(conta[4])
                        /\ reds_seguidos' = reds_seguidos + 1
                        /\ greens_seguidos' = 0
                        /\ max_reds_seguidos' = Max(max_reds_seguidos, reds_seguidos + 1)
                        /\ contagem_gales' = GalesAposErro(g)
                        /\ PADRAO_ATUAL' = IF g + 1 >= max_gales
                                           THEN ProximoPadrao(PADRAO_ATUAL) ELSE PADRAO_ATUAL
                        /\ reds_reais' = IF real # "none" THEN reds_reais + 1 ELSE reds_reais
                        /\ tempo_passado' = Passa(tempo_passado, EsperaPalpite)
                        /\ p_pc' = "placar"
                        /\ UNCHANGED max_greens_seguidos
    /\ ciclos' = ciclos + 1
    /\ UNCHANGED <<old_definido, placar_devido, placar_enviados, limite_no_ciclo>>
    /\ UNCHANGED <<e_pc, ultimo_palpite, hora_atual, minuto_atual, retorno_e, ramo, excecao>>
    /\ UNCHANGED <<now, rng, f_pc, tempo_atual, has_data, has_soup, novo_resultado,
                   recent_results, retorno, tiers_run, seed_minute, n_calls, last_gap,
                   sim_log>>
    /\ UNCHANGED <<varsSend, varsMonitor, varsReact>>
    /\ UNCHANGED varsResto

NextPlacar ==
    \/ enviar_palpite_Placar
    \/ enviar_palpite_Reinicio
    \/ enviar_palpite_Palpite

(***************************************************************************)
(* Part 5: BotMonitor's restart bookkeeping (specification SpecMonitor).   *)
(* can_restart is called by the monitor thread (line 2002), which then     *)
(* calls register_restart (line 2004); the admin handler calls             *)
(* register_restart from a worker thread of the bot (line 2069).  Neither  *)
(* method takes a lock: the rebuild of restart_times (line 80) and the     *)
(* increment of restart_count (line 86) are a read followed by a write.    *)
(***************************************************************************)

\* line 49: restart_limit=5 (line 118 takes the default)
restart_limit == 5

\* line 80: the window of can_restart, in seconds
JanelaReinicio == 3600

Monitores == {"monitor", "admin"}

\* line 80: the timestamps younger than the window
Recentes(tempos, agora_m) == SelectSeq(tempos, LAMBDA t : agora_m - t < JanelaReinicio)

\* line 81
PodeReiniciar(tempos) == Len(tempos) < restart_limit

\* a returned truth value, told apart from "none"
Bool(b) == IF b THEN "True" ELSE "False"

\* lines 57-61
InitMonitor ==
    /\ m_now = 0
    /\ restart_times = <<>>
    /\ restart_count = 0
    /\ c_pc = "idle"
    /\ c_now = 0
    /\ c_filtrado = <<>>
    /\ pode = "none"
    /\ r_pc = [t \in Monitores |-> "idle"]
    /\ r_lido = [t \in Monitores |-> 0]
    /\ chamadas = <<>>
    /\ esperado = "none"

\* time passes
PassoRelogio == JanelaReinicio \div 2

MaxRelogio == MaxPassos * PassoRelogio

TickMonitor ==
    /\ m_now + PassoRelogio <= MaxRelogio
    /\ m_now' = m_now + PassoRelogio
    /\ UNCHANGED <<restart_times, restart_count, c_pc, c_now, c_filtrado, pode, r_pc,
                   r_lido, chamadas, esperado>>
    /\ UNCHANGED <<varsSend, varsFeed, varsPick, varsPlacar, varsReact>>
    /\ UNCHANGED varsResto

\* lines 78-80: can_restart reads the clock and builds the list of the recent
\* timestamps
can_restart_Filtra ==
    /\ c_pc = "idle"
    /\ r_pc["monitor"] = "idle"
    /\ c_now' = m_now
    /\ c_filtrado' = Recentes(restart_times, m_now)
    /\ esperado' = Bool(Len(Recentes(chamadas, m_now)) < restart_limit)
    /\ pode' = "none"
    /\ c_pc' = "filtrado"
    /\ UNCHANGED <<m_now, restart_times, restart_count, r_pc, r_lido, chamadas>>
    /\ UNCHANGED <<varsSend, varsFeed, varsPick, varsPlacar, varsReact>>
    /\ UNCHANGED varsResto

\* lines 80-81 and 2002-2004: can_restart stores the list and returns; when it
\* returns True the monitor thread calls register_restart
can_restart_Devolve ==
    /\ c_pc = "filtrado"
    /\ restart_times' = c_filtrado
    /\ pode' = Bool(PodeReiniciar(c_filtrado))
    /\ c_pc' = "idle"
    /\ r_pc' = [r_pc EXCEPT !["monitor"] = IF PodeReiniciar(c_filtrado) THEN "append" ELSE "idle"]
    /\ UNCHANGED <<m_now, restart_count, c_now, c_filtrado, r_lido, chamadas, esperado>>
    /\ UNCHANGED <<varsSend, varsFeed, varsPick, varsPlacar, varsReact>>
    /\ UNCHANGED varsResto

\* line 2069: the admin handler calls register_restart
register_restart_Admin ==
    /\ r_pc["admin"] = "idle"
    /\ Len(chamadas) < MaxReinicios
    /\ r_pc' = [r_pc EXCEPT !["admin"] = "append"]
    /\ UNCHANGED <<m_now, restart_times, restart_count, c_pc, c_now, c_filtrado, pode,
                   r_lido, chamadas, esperado>>
    /\ UNCHANGED <<varsSend, varsFeed, varsPick, varsPlacar, varsReact>>
    /\ UNCHANGED varsResto

\* line 85: restart_times.append(time.time())
register_restart_Append(t) ==
    /\ r_pc[t] = "append"
    /\ restart_times' = Append(restart_times, m_now)
    /\ chamadas' = Append(chamadas, m_now)
    /\ r_pc' = [r_pc EXCEPT ![t] = "ler"]
    /\ UNCHANGED <<m_now, restart_count, c_pc, c_now, c_filtrado, pode, r_lido, esperado>>
    /\ UNCHANGED <<varsSend, varsFeed, varsPick, varsPlacar, varsReact>>
    /\ UNCHANGED varsResto

\* line 86: restart_count += 1 reads the attribute ...
register_restart_Le(t) ==
    /\ r_pc[t] = "ler"
    /\ r_lido' = [r_lido EXCEPT ![t] = restart_count]
    /\ r_pc' = [r_pc EXCEPT ![t] = "escrever"]
    /\ UNCHANGED <<m_now, restart_times, restart_count, c_pc, c_now, c_filtrado, pode,
                   chamadas, esperado>>
    /\ UNCHANGED <<varsSend, varsFeed, varsPick, varsPlacar, varsReact>>
    /\ UNCHANGED varsResto

\* ... and stores it raised by one
register_restart_Escreve(t) ==
    /\ r_pc[t] = "escrever"
    /\ restart_count' = r_lido[t] + 1
    /\ r_pc' = [r_pc EXCEPT ![t] = "idle"]
    /\ UNCHANGED <<m_now, restart_times, c_pc, c_now, c_filtrado, pode, r_lido, chamadas,
                   esperado>>
    /\ UNCHANGED <<varsSend, varsFeed, varsPick, varsPlacar, varsReact>>
    /\ UNCHANGED varsResto

NextMonitor ==
    \/ TickMonitor
    \/ can_restart_Filtra
    \/ can_restart_Devolve
    \/ register_restart_Admin
    \/ \E t \in Monitores : register_restart_Append(t)
    \/ \E t \in Monitores : register_restart_Le(t)
    \/ \E t \in Monitores : register_restart_Escreve(t)

(***************************************************************************)
(* Part 6: handle_reaction and the store prediction_messages               *)
(* (specification SpecReact), with the delivery of a prediction by the     *)
(* posting loop (lines 1174-1294, specification SpecEntrega).  The bot is  *)
(* created with threaded=True (line 136): callbacks are handled by worker  *)
(* threads, two of them here, while the posting loop adds the messages it  *)
(* sends to the store.  SpecReact follows the store while no user has sent *)
(* /start, SpecEntrega the delivery with /start arriving at any time.      *)
(***************************************************************************)

Workers == {"w1", "w2"}

\* lines 741-750: the known reaction kinds and their emojis
REACTION_EMOJIS ==
    [k \in {"like", "love", "fire", "thinking", "sad", "angry", "money", "lucky"} |-> k]

\* the reaction kinds callbacks carry here: two known ones and one unknown
TiposRecebidos == {"like", "love", "outro"}

\* ids of the messages callbacks can come from: those the loop posts and one
\* the store never held
MsgIds == 1..(MaxMsgs + 1)

\* lines 1208-1211: the entry stored for a posted prediction
NovaEntrada(palpite) ==
    [prediction |-> palpite, reactions |-> [e \in DOMAIN REACTION_EMOJIS |-> 0]]

\* line 1730
Rastreada(pm, mid) == mid \in DOMAIN pm

\* as RespostaIndisponivel, answering nothing
RespostaIndisponivel_Nenhuma == [texto |-> "none", total |-> 0, alerta |-> FALSE]

\* lines 1795-1799: the answer for a message that is not in the store
RespostaIndisponivel == [texto |-> "indisponivel", total |-> 0, alerta |-> TRUE]

\* lines 1742-1746: the answer for a counted reaction
RespostaReagiu(count) == [texto |-> "reagiu", total |-> count, alerta |-> FALSE]

SemResposta == [texto |-> "none", total |-> 0, alerta |-> FALSE]

\* the ids of the users who write to the bot
Usuarios == 1..MaxUsuarios

\* line 268: PRIMEIRO_USUARIO_ID = None
Nenhum == 0

\* no delivery yet
SemEntrega == [canal |-> 0, espera |-> FALSE, privado |-> "none", palpite |-> "none"]

\* line 1296 is not reached yet
SemEspera == [para |-> 0, enviada |-> FALSE, apagada |-> FALSE]

\* lines 268, 754
InitEntrega ==
    /\ PRIMEIRO_USUARIO_ID = Nenhum
    /\ ult_entrega = SemEntrega

\* line 754
InitReact ==
    /\ prediction_messages = <<>>
    /\ h_pc = [w \in Workers |-> "idle"]
    /\ h_mid = [w \in Workers |-> 0]
    /\ h_tipo = [w \in Workers |-> "none"]
    /\ h_lido = [w \in Workers |-> 0]
    /\ resposta = [w \in Workers |-> SemResposta]
    /\ h_editou = [w \in Workers |-> FALSE]
    /\ n_callbacks = 0

\* what one destination of canal_ids does with the message (lines 1179-1246):
\* e1 is the outcome of the send of line 1199, e2 that of the send of line
\* 1228, made only after a rate-limit error whose wait parses (lines
\* 1219-1222).  "direto" and "espera": the destination accepted the message.
TentaCanal(e1, e2) ==
    IF e1.ok THEN "direto"
    ELSE IF Classify(e1) = "rate_hint" /\ e2.ok THEN "espera"
    ELSE "falhou"

DesfechosCanal == {TentaCanal(e1, e2) : e1 \in SendOutcomes, e2 \in {Ok, ErrOther}}

\* lines 1176-1178: the for loop stops after the first destination that
\* accepted: what the destinations it tries can do, in the order of canal_ids
Tentativas ==
    {r \in UNION {[1..n -> DesfechosCanal] : n \in 1..NumCanais} :
        /\ \A i \in 1..(Len(r) - 1) : r[i] = "falhou"
        /\ Len(r) < NumCanais => r[Len(r)] # "falhou"}

\* the destination that accepted (0: none did)
PrimeiroAceite(r) == IF r[Len(r)] # "falhou" THEN Len(r) ELSE 0

TentaPrivado_Sempre(aceitou, usuario) == usuario # Nenhum

\* lines 1250, 1255: the private message is tried
TentaPrivado(aceitou, usuario) == ~aceitou /\ usuario # Nenhum

\* lines 1333-1378: /start.  The first user to send it is kept (lines
\* 1341-1342); the thread of line 1371 then runs the picker (Part 3).
start_cmd(u) ==
    /\ PRIMEIRO_USUARIO_ID' = IF PRIMEIRO_USUARIO_ID = Nenhum THEN u ELSE PRIMEIRO_USUARIO_ID
    /\ UNCHANGED ult_entrega
    /\ UNCHANGED <<varsBase, varsMain, varsLacos, varsAdmin, varsGales, varsFinais>>

\* lines 1174-1246: the posting loop offers the prediction of the cycle to the
\* destinations of canal_ids; r is what those it tries do with it.  An
\* accepted send stores an entry under the id of the message sent (lines
\* 1208, 1237); the ids are taken here as 1, 2, ... in the order of the sends.
enviar_palpite_Canais ==
    /\ ult_entrega.privado # "pendente"
    /\ Len(prediction_messages) < MaxMsgs
    /\ \E palpite \in {LaranjaAzul, SoVermelho}, r \in Tentativas :
         LET k == PrimeiroAceite(r)
         IN  /\ ult_entrega' = [canal |-> k, espera |-> k # 0 /\ r[k] = "espera",
                                privado |-> "pendente", palpite |-> palpite]
             /\ prediction_messages' =
                   IF k # 0 THEN Append(prediction_messages, NovaEntrada(palpite))
                   ELSE prediction_messages
    /\ UNCHANGED PRIMEIRO_USUARIO_ID
    /\ UNCHANGED <<h_pc, h_mid, h_tipo, h_lido, resposta, h_editou, n_callbacks>>
    /\ UNCHANGED <<varsSend, varsFeed, varsPick, varsPlacar, varsMonitor>>
    /\ ult_espera' = SemEspera
    /\ UNCHANGED <<e_lidos, varsPalpiteCmd, st_pc>>
    /\ UNCHANGED <<varsMain, varsLacos, varsAdmin, varsGales>>

\* lines 1249-1294: the private message; e is the outcome of the send of line
\* 1283, whose entry line 1287 stores.  The cycle then goes on to its
\* waiting message (line 1296).
enviar_palpite_Privado ==
    /\ ult_entrega.privado = "pendente"
    /\ IF TentaPrivado(ult_entrega.canal # 0, PRIMEIRO_USUARIO_ID)
       THEN \E e \in {Ok, ErrOther} :
              /\ ult_entrega' = [ult_entrega EXCEPT
                                   !.privado = IF e.ok THEN "aceite" ELSE "falhou"]
              /\ prediction_messages' =
                    IF e.ok
                    THEN Append(prediction_messages, NovaEntrada(ult_entrega.palpite))
                    ELSE prediction_messages
       ELSE /\ ult_entrega' = [ult_entrega EXCEPT !.privado = "nao_tentado"]
            /\ UNCHANGED prediction_messages
    /\ UNCHANGED PRIMEIRO_USUARIO_ID
    /\ UNCHANGED <<h_pc, h_mid, h_tipo, h_lido, resposta, h_editou, n_callbacks>>
    /\ UNCHANGED <<varsSend, varsFeed, varsPick, varsPlacar, varsMonitor>>
    /\ UNCHANGED <<varsMain, varsLacos, varsAdmin, varsGales, varsFinais>>

NextEntrega ==
    \/ enviar_palpite_Canais
    \/ enviar_palpite_Privado
    \/ \E u \in Usuarios : start_cmd(u)

\* lines 1725-1733 and 1793-1800: the callback arrives; a message that is not
\* in the store is answered at once, an unknown kind is ignored
handle_reaction_Call(w) ==
    /\ h_pc[w] = "idle"
    /\ n_callbacks < MaxReacoes
    /\ n_callbacks' = n_callbacks + 1
    /\ \E mid \in MsgIds, tipo \in TiposRecebidos :
         /\ h_mid' = [h_mid EXCEPT ![w] = mid]
         /\ h_tipo' = [h_tipo EXCEPT ![w] = tipo]
         /\ IF Rastreada(prediction_messages, mid)
            THEN IF tipo \in DOMAIN REACTION_EMOJIS
                 THEN /\ h_pc' = [h_pc EXCEPT ![w] = "ler"]
                      /\ resposta' = [resposta EXCEPT ![w] = SemResposta]
                 ELSE /\ h_pc' = [h_pc EXCEPT ![w] = "fim"]
                      /\ resposta' = [resposta EXCEPT ![w] = SemResposta]
            ELSE /\ h_pc' = [h_pc EXCEPT ![w] = "fim"]
                 /\ resposta' = [resposta EXCEPT ![w] = RespostaIndisponivel]
    /\ UNCHANGED <<prediction_messages, h_lido, h_editou>>
    /\ UNCHANGED <<varsSend, varsFeed, varsPick, varsPlacar, varsMonitor>>
    /\ UNCHANGED varsResto

\* line 1736: reactions[emoji] += 1 reads the count ...
handle_reaction_Le(w) ==
    /\ h_pc[w] = "ler"
    /\ h_lido' = [h_lido EXCEPT ![w] = prediction_messages[h_mid[w]].reactions[h_tipo[w]]]
    /\ h_pc' = [h_pc EXCEPT ![w] = "escrever"]
    /\ UNCHANGED <<prediction_messages, h_mid, h_tipo, resposta, h_editou, n_callbacks>>
    /\ UNCHANGED <<varsSend, varsFeed, varsPick, varsPlacar, varsMonitor>>
    /\ UNCHANGED varsResto

\* ... and stores it raised by one
handle_reaction_Escreve(w) ==
    /\ h_pc[w] = "escrever"
    /\ prediction_messages' =
          [prediction_messages EXCEPT ![h_mid[w]].reactions[h_tipo[w]] = h_lido[w] + 1]
    /\ h_pc' = [h_pc EXCEPT ![w] = "responder"]
    /\ UNCHANGED <<h_mid, h_tipo, h_lido, resposta, h_editou, n_callbacks>>
    /\ UNCHANGED <<varsSend, varsFeed, varsPick, varsPlacar, varsMonitor>>
    /\ UNCHANGED varsResto

\* lines 1739-1791: the count is read back and reported, and the message is
\* edited (editou: bot.edit_message_text did not raise)
handle_reaction_Responde(w) ==
    /\ h_pc[w] = "responder"
    /\ resposta' = [resposta EXCEPT
                      ![w] = RespostaReagiu(prediction_messages[h_mid[w]].reactions[h_tipo[w]])]
    /\ \E editou \in BOOLEAN : h_editou' = [h_editou EXCEPT ![w] = editou]
    /\ h_pc' = [h_pc EXCEPT ![w] = "fim"]
    /\ UNCHANGED <<prediction_messages, h_mid, h_tipo, h_lido, n_callbacks>>
    /\ UNCHANGED <<varsSend, varsFeed, varsPick, varsPlacar, varsMonitor>>
    /\ UNCHANGED varsResto

\* the handler returns: its locals are gone
handle_reaction_Return(w) ==
    /\ h_pc[w] = "fim"
    /\ h_pc' = [h_pc EXCEPT ![w] = "idle"]
    /\ h_mid' = [h_mid EXCEPT ![w] = 0]
    /\ h_tipo' = [h_tipo EXCEPT ![w] = "none"]
    /\ h_lido' = [h_lido EXCEPT ![w] = 0]
    /\ resposta' = [resposta EXCEPT ![w] = SemResposta]
    /\ h_editou' = [h_editou EXCEPT ![w] = FALSE]
    /\ UNCHANGED <<prediction_messages, n_callbacks>>
    /\ UNCHANGED <<varsSend, varsFeed, varsPick, varsPlacar, varsMonitor>>
    /\ UNCHANGED varsResto

NextReact ==
    \/ enviar_palpite_Canais
    \/ enviar_palpite_Privado
    \/ \E w \in Workers : handle_reaction_Call(w)
    \/ \E w \in Workers : handle_reaction_Le(w)
    \/ \E w \in Workers : handle_reaction_Escreve(w)
    \/ \E w \in Workers : handle_reaction_Responde(w)
    \/ \E w \in Workers : handle_reaction_Return(w)

(***************************************************************************)
(* Part 7: the main thread (specification SpecMain): the wrapper of lines  *)
(* 2172-2209, main() with its polling loop (lines 2103-2157) and the       *)
(* signal handler (lines 121-124), which Python runs on the main thread    *)
(* between two of its instructions.  sys.exit raises SystemExit, which no  *)
(* 'except Exception' catches and the clause of line 2180 does.            *)
(***************************************************************************)

\* lines 2104 and 2173
max_retries == 10

max_retry == 10

\* Delays are counted in ticks of 1/1024 second: at most ten growths by 1.5
\* happen in one run of either loop, so the arithmetic is exact.
EscalaSeg == 2 ^ 10

Seg(n) == n * EscalaSeg

\* the process has not ended
SemEstado == -1

\* what the text and the class of a polling exception can hold of what lines
\* 2123-2134 look for: the codes it contains, and "conn" for a class of
\* lines 2132-2134
ErrosPolling ==
    {{"429"}, {"401"}, {"409"}, {"conn"}, {}, {"429", "401"}, {"401", "conn"}}

\* lines 2123-2143: the branch taken
RamoPolling(e) ==
    IF "429" \in e THEN "429"
    ELSE IF "401" \in e THEN "401"
    ELSE IF "409" \in e THEN "409"
    ELSE IF "conn" \in e THEN "conn"
    ELSE "outro"

\* lines 2125, 2131, 2136: retry_delay after the branch
NovoAtraso(r, d) ==
    CASE r = "429"  -> Min(d * 2, Seg(60))
      [] r = "409"  -> Seg(10)
      [] r = "conn" -> Min((d * 3) \div 2, Seg(30))
      [] OTHER      -> d

\* line 2204
AtrasoWrapper(d) == Min((d * 3) \div 2, Seg(300))

\* where the main thread is while main() runs (inside the try of line 2177)
DentroDeMain == {"main", "teste", "polling", "espera", "fim_main"}

\* the main thread at pc after n calls of main(), none of which failed
InitMainEm(pc, n) ==
    /\ running = TRUE
    /\ sinal = "none"
    /\ g_pc = pc
    /\ m_retry_count = 0
    /\ m_retry_delay = Seg(5)
    /\ w_retry_count = 0
    /\ w_retry_delay = Seg(30)
    /\ exit_status = SemEstado
    /\ n_main = n
    /\ viu_401 = FALSE
    /\ main_apos_401 = FALSE
    /\ esgotado = FALSE

\* lines 2172-2174: the script reaches the wrapper's loop
InitMain == InitMainEm("wrapper", 0)

\* line 2112: main() has started the two threads and waits in bot.polling
InitMainPolling == InitMainEm("polling", 1)

\* lines 2176-2178: the wrapper's loop test and the call of main()
wrapper_Testa ==
    /\ g_pc = "wrapper" /\ sinal # "marcado"
    /\ IF w_retry_count < max_retry
       THEN /\ g_pc' = "main"
            /\ n_main' = n_main + 1
            /\ main_apos_401' = (main_apos_401 \/ viu_401)
       ELSE /\ g_pc' = "apos"
            /\ UNCHANGED <<n_main, main_apos_401>>
    /\ UNCHANGED <<running, sinal, m_retry_count, m_retry_delay, w_retry_count,
                   w_retry_delay, exit_status, viu_401, esgotado>>
    /\ UNCHANGED <<varsBase, varsLacos, varsDemais>>

\* lines 1917-2106: main() up to its loop.  Its sends are wrapped in try
\* blocks; Thread.start (lines 2044, 2049) raises RuntimeError when the
\* system refuses a thread, which leaves main() for the clause of line 2183.
main_Setup ==
    /\ g_pc = "main" /\ sinal # "marcado"
    /\ \E ok \in BOOLEAN :
         IF ok
         THEN /\ m_retry_count' = 0
              /\ m_retry_delay' = Seg(5)
              /\ g_pc' = "teste"
              /\ UNCHANGED w_retry_count
         ELSE /\ w_retry_count' = w_retry_count + 1
              /\ g_pc' = "notifica"
              /\ UNCHANGED <<m_retry_count, m_retry_delay>>
    /\ UNCHANGED <<running, sinal, w_retry_delay, exit_status, n_main, viu_401,
                   main_apos_401, esgotado>>
    /\ UNCHANGED <<varsBase, varsLacos, varsDemais>>

\* line 2108
main_Testa ==
    /\ g_pc = "teste" /\ sinal # "marcado"
    /\ g_pc' = IF running /\ m_retry_count < max_retries THEN "polling" ELSE "fim_main"
    /\ UNCHANGED <<running, sinal, m_retry_count, m_retry_delay, w_retry_count,
                   w_retry_delay, exit_status, n_main, viu_401, main_apos_401, esgotado>>
    /\ UNCHANGED <<varsBase, varsLacos, varsDemais>>

\* lines 2112-2143: bot.polling returns (break, line 2114) or raises
main_Polling ==
    /\ g_pc = "polling" /\ sinal # "marcado"
    /\ \/ /\ g_pc' = "fim_main"
          /\ UNCHANGED <<m_retry_count, m_retry_delay, viu_401>>
       \/ \E e \in ErrosPolling :
            /\ m_retry_count' = m_retry_count + 1
            /\ m_retry_delay' = NovoAtraso(RamoPolling(e), m_retry_delay)
            /\ viu_401' = (viu_401 \/ RamoPolling(e) = "401")
            /\ g_pc' = IF RamoPolling(e) = "401" THEN "fim_main" ELSE "espera"
    /\ UNCHANGED <<running, sinal, w_retry_count, w_retry_delay, exit_status, n_main,
                   main_apos_401, esgotado>>
    /\ UNCHANGED <<varsBase, varsLacos, varsDemais>>

\* lines 2145-2153: the sleep and the connection test, whose failure is logged
main_Espera ==
    /\ g_pc = "espera" /\ sinal # "marcado"
    /\ g_pc' = "teste"
    /\ UNCHANGED <<running, sinal, m_retry_count, m_retry_delay, w_retry_count,
                   w_retry_delay, exit_status, n_main, viu_401, main_apos_401, esgotado>>
    /\ UNCHANGED <<varsBase, varsLacos, varsDemais>>

\* lines 2155-2157 and 2179-2182: main() returns and the wrapper breaks, or
\* main() calls sys.exit(1), whose SystemExit the clause of line 2180 catches
\* before the wrapper breaks
main_Fim ==
    /\ g_pc = "fim_main" /\ sinal # "marcado"
    /\ esgotado' = (esgotado \/ m_retry_count >= max_retries)
    /\ g_pc' = "apos"
    /\ UNCHANGED <<running, sinal, m_retry_count, m_retry_delay, w_retry_count,
                   w_retry_delay, exit_status, n_main, viu_401, main_apos_401>>
    /\ UNCHANGED <<varsBase, varsLacos, varsDemais>>

\* lines 2185-2198: the log and the message to the admin, whose failure the
\* bare except of line 2195 drops
wrapper_Notifica ==
    /\ g_pc = "notifica" /\ sinal # "marcado"
    /\ g_pc' = "dorme"
    /\ UNCHANGED <<running, sinal, m_retry_count, m_retry_delay, w_retry_count,
                   w_retry_delay, exit_status, n_main, viu_401, main_apos_401, esgotado>>
    /\ UNCHANGED <<varsBase, varsLacos, varsDemais>>

\* lines 2201-2204
wrapper_Dorme ==
    /\ g_pc = "dorme" /\ sinal # "marcado"
    /\ w_retry_delay' = AtrasoWrapper(w_retry_delay)
    /\ g_pc' = "wrapper"
    /\ UNCHANGED <<running, sinal, m_retry_count, m_retry_delay, w_retry_count,
                   exit_status, n_main, viu_401, main_apos_401, esgotado>>
    /\ UNCHANGED <<varsBase, varsLacos, varsDemais>>

\* lines 2206-2209 and the end of the script
wrapper_Apos ==
    /\ g_pc = "apos" /\ sinal # "marcado"
    /\ exit_status' = IF w_retry_count >= max_retry THEN 1 ELSE 0
    /\ g_pc' = "saiu"
    /\ UNCHANGED <<running, sinal, m_retry_count, m_retry_delay, w_retry_count,
                   w_retry_delay, n_main, viu_401, main_apos_401, esgotado>>
    /\ UNCHANGED <<varsBase, varsLacos, varsDemais>>

\* lines 121-123: SIGINT or SIGTERM arrives and the handler clears the flag
signal_handler_Flag ==
    /\ sinal = "none" /\ g_pc # "saiu"
    /\ running' = FALSE
    /\ sinal' = "marcado"
    /\ UNCHANGED <<g_pc, m_retry_count, m_retry_delay, w_retry_count, w_retry_delay,
                   exit_status, n_main, viu_401, main_apos_401, esgotado>>
    /\ UNCHANGED <<varsBase, varsLacos, varsDemais>>

\* line 124: sys.exit(0) raises SystemExit where the main thread stands.
\* Inside main() it reaches the clause of line 2180 and the wrapper breaks;
\* inside bot.send_message of line 2194 the bare except of line 2195 drops it
\* (engolido); anywhere else in the wrapper it ends the process with status 0.
signal_handler_Exit ==
    /\ sinal = "marcado"
    /\ sinal' = "tratado"
    /\ IF g_pc \in DentroDeMain
       THEN g_pc' = "apos" /\ UNCHANGED exit_status
       ELSE \E engolido \in BOOLEAN :
              /\ engolido => g_pc = "notifica"
              /\ IF engolido
                 THEN UNCHANGED <<g_pc, exit_status>>
                 ELSE g_pc' = "saiu" /\ exit_status' = 0
    /\ UNCHANGED <<running, m_retry_count, m_retry_delay, w_retry_count, w_retry_delay,
                   n_main, viu_401, main_apos_401, esgotado>>
    /\ UNCHANGED <<varsBase, varsLacos, varsDemais>>

NextMain ==
    \/ wrapper_Testa
    \/ main_Setup
    \/ main_Testa
    \/ main_Polling
    \/ main_Espera
    \/ main_Fim
    \/ wrapper_Notifica
    \/ wrapper_Dorme
    \/ wrapper_Apos
    \/ signal_handler_Flag
    \/ signal_handler_Exit

(***************************************************************************)
(* Part 8: the two daemon threads main() starts (lines 2042-2049) and      *)
(* their end (specification SpecLacos): the posting loop of Part 4 with    *)
(* the exit of its while, and the monitor loop monitor_thread_func (lines  *)
(* 1970-2039).  Both test bot_monitor.running at the top of an iteration   *)
(* only.  The flag is cleared by the signal handler alone, on the main     *)
(* thread, which then raises SystemExit (Part 7); when the main thread has *)
(* left the script the interpreter ends and its daemon threads with it.    *)
(* The main thread is taken from the point where it waits in bot.polling,  *)
(* the posting loop from the state it is in after 200 predictions, at the  *)
(* thresholds of line 974: there every iteration raises in the reset block *)
(* (lines 976-988) and none reaches line 1019.                             *)
(***************************************************************************)

\* what bot.get_me, bot.stop_polling and bot.polling raise when they fail
ErrosTelegram == {"ApiTelegramException", "ConnectionError"}

\* a loop that runs no more
LacoTerminado == {"fim", "morta", "parada"}

InitLacos == ml_pc = "teste"

\* line 926: the while test of the posting loop fails and enviar_palpite returns
enviar_palpite_Fim ==
    /\ p_pc = "placar"
    /\ ~ContinuaLaco(running)
    /\ p_pc' = "fim"
    /\ UNCHANGED <<acertos, erros, total, greens_seguidos, reds_seguidos,
                   max_greens_seguidos, max_reds_seguidos, consecutive_errors,
                   PADRAO_ATUAL, tempo_passado, old_definido, ciclos, placar_devido,
                   placar_enviados, limite_no_ciclo, ult_pontuacao, contra_real,
                   reds_reais>>
    /\ UNCHANGED <<varsSend, varsFeed, varsPick, varsMonitor, varsReact>>
    /\ UNCHANGED varsResto

\* line 1974: the while test of the monitor loop
monitor_Testa ==
    /\ ml_pc = "teste"
    /\ ml_pc' = IF ContinuaLaco(running) THEN "verifica" ELSE "fim"
    /\ UNCHANGED <<varsBase, varsMain, varsDemais>>

\* lines 1977-1999: the activity check and, for a silent bot, the ping: the
\* bot answers (lines 1983-1997, each alert to an admin in its own try) or
\* bot.get_me raises and the handler of line 1998 takes over
monitor_Verifica ==
    /\ ml_pc = "verifica"
    /\ \E ativo \in BOOLEAN, r \in {"ok"} \cup ErrosTelegram :
         /\ ativo => r = "ok"
         /\ IF ativo \/ r = "ok"
            THEN ml_pc' = "processa"
            ELSE IF ApanhaException(r)
            THEN ml_pc' = "reinicia"
            ELSE ml_pc' = "morta"
    /\ UNCHANGED <<varsBase, varsMain, varsDemais>>

\* lines 2002-2030, run by this thread alone: can_restart, and when it allows
\* register_restart, the alerts (line 2014 drops their failures) and
\* bot.stop_polling with its sleep, whose exception line 2026 catches
monitor_Reinicia ==
    /\ ml_pc = "reinicia"
    /\ IF PodeReiniciar(Recentes(restart_times, m_now))
       THEN /\ restart_times' = Append(Recentes(restart_times, m_now), m_now)
            /\ restart_count' = restart_count + 1
            /\ chamadas' = Append(chamadas, m_now)
            /\ \E r \in {"ok"} \cup ErrosTelegram :
                 IF r = "ok"
                 THEN ml_pc' = "polling"
                 ELSE IF ApanhaException(r)
                 THEN ml_pc' = "processa"
                 ELSE ml_pc' = "morta"
       ELSE /\ restart_times' = Recentes(restart_times, m_now)
            /\ ml_pc' = "processa"
            /\ UNCHANGED <<restart_count, chamadas>>
    /\ UNCHANGED <<m_now, c_pc, c_now, c_filtrado, pode, r_pc, r_lido, esperado>>
    /\ UNCHANGED <<varsSend, varsFeed, varsPick, varsPlacar, varsReact, varsMain, varsDemais>>

\* lines 2024-2028: bot.polling(none_stop=True) blocks this thread; it comes
\* back when another thread stops the polling, or it raises (line 2026)
monitor_Polling ==
    /\ ml_pc = "polling"
    /\ \E r \in {"ok"} \cup ErrosTelegram :
         IF r = "ok" \/ ApanhaException(r)
         THEN ml_pc' = "processa"
         ELSE ml_pc' = "morta"
    /\ UNCHANGED <<varsBase, varsMain, varsDemais>>

\* lines 2033-2036: the errors reported are logged and the thread sleeps 15
\* seconds
monitor_Processa ==
    /\ ml_pc = "processa"
    /\ ml_pc' = "teste"
    /\ UNCHANGED <<varsBase, varsMain, varsDemais>>

\* the main thread has left the script: the interpreter ends, and the daemon
\* threads (lines 2043, 2048) stop where they are
processo_Termina ==
    /\ g_pc = "saiu"
    /\ p_pc \notin LacoTerminado \/ ml_pc \notin LacoTerminado
    /\ p_pc' = IF p_pc \in LacoTerminado THEN p_pc ELSE "parada"
    /\ ml_pc' = IF ml_pc \in LacoTerminado THEN ml_pc ELSE "parada"
    /\ UNCHANGED <<acertos, erros, total, greens_seguidos, reds_seguidos,
                   max_greens_seguidos, max_reds_seguidos, consecutive_errors,
                   PADRAO_ATUAL, tempo_passado, old_definido, ciclos, placar_devido,
                   placar_enviados, limite_no_ciclo, ult_pontuacao, contra_real,
                   reds_reais>>
    /\ UNCHANGED <<varsSend, varsFeed, varsPick, varsMonitor, varsReact, varsMain, varsDemais>>

NextLacos ==
    \/ enviar_palpite_Placar
    \/ enviar_palpite_Reinicio
    \/ enviar_palpite_Fim
    \/ monitor_Testa
    \/ monitor_Verifica
    \/ monitor_Reinicia
    \/ monitor_Polling
    \/ monitor_Processa
    \/ signal_handler_Flag
    \/ signal_handler_Exit
    \/ wrapper_Apos
    \/ processo_Termina

(***************************************************************************)
(* Part 9: the admin gate (specification SpecAdmin).  The list             *)
(* bot_monitor.admin_chat_ids starts empty (line 64) and only              *)
(* register_admin appends to it (line 101); register_admin is called with  *)
(* msg.from_user.id by status_cmd (line 1511) and by monitor_cmd (line      *)
(* 1811).  handle_admin_action (lines 2052-2101) serves the callbacks whose *)
(* data start with "admin_", the buttons of lines 1866-1867.  The handlers *)
(* run on the worker threads of the bot, so a call of register_admin can   *)
(* be between its test and its append while others run.  One call per     *)
(* user at a time is followed: two calls for one user that both pass the   *)
(* test append the id twice, which changes no membership.                  *)
(***************************************************************************)

\* lines 1866-1867: the callback data of the two buttons
DadosAdmin == {"admin_restart", "admin_logs"}

\* line 2056: call.data.split('_')[1]
AcaoDe(data) == IF data = "admin_restart" THEN "restart" ELSE "logs"

\* a callback nobody has sent yet
SemAto == [user |-> 0, acao |-> "none", desfecho |-> "none"]

Admitido_Todos(user_id, lista) == TRUE

\* line 2059
Admitido(user_id, lista) == user_id \in Range(lista)

\* line 64
InitAdmin ==
    /\ admin_chat_ids = <<>>
    /\ reg_pend = [u \in Usuarios |-> 0]
    /\ comandos = {}
    /\ a_ult = SemAto
    /\ n_atos = 0
    /\ logs_para = {}
    /\ polling_reinicios = 0

\* line 100: the test of register_admin
register_admin_Testa(chat_id) ==
    IF chat_id \in Range(admin_chat_ids)
    THEN reg_pend' = reg_pend
    ELSE reg_pend' = [reg_pend EXCEPT ![chat_id] = @ + 1]

\* lines 1429-1511: /status.  The report is sent first (line 1508); when that
\* raises the handler ends before line 1511.
status_cmd(u) ==
    /\ reg_pend[u] = 0
    /\ comandos' = comandos \cup {u}
    /\ \E envio \in {"ok", "erro"} :
         IF envio = "ok" THEN register_admin_Testa(u) ELSE reg_pend' = reg_pend
    /\ UNCHANGED <<admin_chat_ids, a_ult, n_atos, logs_para, polling_reinicios>>
    /\ UNCHANGED <<varsBase, varsMain, varsLacos, varsEntrega, varsGales, varsFinais>>

\* lines 1803-1811: /monitor and /status24
monitor_cmd(u) ==
    /\ reg_pend[u] = 0
    /\ comandos' = comandos \cup {u}
    /\ register_admin_Testa(u)
    /\ UNCHANGED <<admin_chat_ids, a_ult, n_atos, logs_para, polling_reinicios>>
    /\ UNCHANGED <<varsBase, varsMain, varsLacos, varsEntrega, varsGales, varsFinais>>

\* line 101
register_admin_Append(u) ==
    /\ reg_pend[u] > 0
    /\ admin_chat_ids' = Append(admin_chat_ids, u)
    /\ reg_pend' = [reg_pend EXCEPT ![u] = @ - 1]
    /\ UNCHANGED <<comandos, a_ult, n_atos, logs_para, polling_reinicios>>
    /\ UNCHANGED <<varsBase, varsMain, varsLacos, varsEntrega, varsGales, varsFinais>>

\* lines 2053-2101: one admin_ callback pressed by user u.  aviso is what
\* becomes of the two answers of lines 2064-2065, which no try encloses; r
\* of bot.stop_polling and bot.polling (lines 2071-2078) or of the reading
\* and sending of the log (lines 2080-2101).
handle_admin_action(u, data) ==
    /\ n_atos < MaxAtos
    /\ n_atos' = n_atos + 1
    /\ \E aviso \in {"ok", "erro"}, r \in {"ok"} \cup ErrosTelegram :
         IF ~Admitido(u, admin_chat_ids)
         THEN /\ a_ult' = [user |-> u, acao |-> AcaoDe(data), desfecho |-> "rejeitado"]
              /\ UNCHANGED <<restart_times, restart_count, chamadas, logs_para,
                             polling_reinicios>>
         ELSE IF AcaoDe(data) = "restart"
         THEN IF aviso = "erro"
              THEN /\ a_ult' = [user |-> u, acao |-> "restart", desfecho |-> "excecao"]
                   /\ UNCHANGED <<restart_times, restart_count, chamadas, logs_para,
                                  polling_reinicios>>
              ELSE /\ a_ult' = [user |-> u, acao |-> "restart", desfecho |-> "feito"]
                   /\ restart_times' = Append(restart_times, m_now)
                   /\ restart_count' = restart_count + 1
                   /\ chamadas' = Append(chamadas, m_now)
                   /\ polling_reinicios' = IF r = "ok" THEN polling_reinicios + 1
                                           ELSE polling_reinicios
                   /\ UNCHANGED logs_para
         ELSE /\ a_ult' = [user |-> u, acao |-> "logs",
                           desfecho |-> IF r = "ok" THEN "feito" ELSE "excecao"]
              /\ logs_para' = IF r = "ok" THEN logs_para \cup {u} ELSE logs_para
              /\ UNCHANGED <<restart_times, restart_count, chamadas, polling_reinicios>>
    /\ UNCHANGED <<admin_chat_ids, reg_pend, comandos>>
    /\ UNCHANGED <<m_now, c_pc, c_now, c_filtrado, pode, r_pc, r_lido, esperado>>
    /\ UNCHANGED <<varsSend, varsFeed, varsPick, varsPlacar, varsReact, varsMain, varsLacos,
                   varsEntrega, varsGales, varsFinais>>

NextAdmin ==
    \/ \E u \in Usuarios : status_cmd(u)
    \/ \E u \in Usuarios : monitor_cmd(u)
    \/ \E u \in Usuarios : register_admin_Append(u)
    \/ \E u \in Usuarios, data \in DadosAdmin : handle_admin_action(u, data)

(***************************************************************************)
(* Part 10: the scoring of a miss and the picker (specification            *)
(* SpecGales).  The posting loop and the picker share the globals          *)
(* contagem_gales and modo_defensivo, and no lock guards them.  The picker *)
(* is called by the posting loop (line 1019) and, on threads of their own, *)
(* by /start (lines 1371, 1384) and /palpite (line 1559).  Here the        *)
(* prediction step of Part 4 is cut where the miss branch leaves the       *)
(* counter raised: line 1108 adds 1, line 1111 reads it again, line 1128   *)
(* resets it.  Of the state of the loop only what the picker shares with   *)
(* it is followed.                                                         *)
(***************************************************************************)

InitGales == gl_pc = "gera"

\* lines 527 and 540-542: what a call of the picker does to the globals; ult
\* is the window its refresh of the cache finds, of one or two results here
ChamaPicker ==
    /\ modo_defensivo' = ModoApos(contagem_gales, modo_defensivo)
    /\ contagem_gales' = GalesApos(contagem_gales)
    /\ \E ult \in {h \in Historicos : Len(h) <= 2} :
         resultados_anteriores' = NovoRegistro(ult, ult[1], now, TRUE, FALSE, "api")
    /\ UNCHANGED <<now, rng, f_pc, tempo_atual, has_data, has_soup, novo_resultado,
                   recent_results, retorno, tiers_run, seed_minute, n_calls, last_gap,
                   sim_log>>
    /\ UNCHANGED <<e_pc, ultimo_palpite, hora_atual, minuto_atual, retorno_e, ramo, excecao>>
    /\ UNCHANGED <<varsSend, varsMonitor, varsReact>>
    /\ UNCHANGED <<varsMain, varsLacos, varsAdmin, varsEntrega, varsFinais>>

\* lines 1381-1384: the thread /start begins (line 1371) calls the picker, as
\* does the thread of /palpite (lines 1556-1559)
gerar_e_enviar_palpite ==
    /\ ChamaPicker
    /\ UNCHANGED <<varsPlacar, gl_pc>>

\* lines 1019-1028: the posting loop calls the picker
enviar_palpite_Gera ==
    /\ gl_pc = "gera"
    /\ ChamaPicker
    /\ gl_pc' = "pontua"
    /\ UNCHANGED varsPlacar

\* lines 1051-1074: a hit resets the counter
enviar_palpite_Acerto ==
    /\ gl_pc = "pontua"
    /\ contagem_gales' = 0
    /\ gl_pc' = "gera"
    /\ UNCHANGED <<e_pc, modo_defensivo, ultimo_palpite, hora_atual, minuto_atual, retorno_e,
                   ramo, excecao>>
    /\ UNCHANGED <<varsSend, varsFeed, varsPlacar, varsMonitor, varsReact>>
    /\ UNCHANGED <<varsMain, varsLacos, varsAdmin, varsEntrega, varsFinais>>

\* lines 1097-1108: a miss raises the counter
enviar_palpite_ErroSoma ==
    /\ gl_pc = "pontua"
    /\ contagem_gales' = contagem_gales + 1
    /\ gl_pc' = "adapta"
    /\ UNCHANGED <<e_pc, modo_defensivo, ultimo_palpite, hora_atual, minuto_atual, retorno_e,
                   ramo, excecao>>
    /\ UNCHANGED <<varsSend, varsFeed, varsPlacar, varsMonitor, varsReact>>
    /\ UNCHANGED <<varsMain, varsLacos, varsAdmin, varsEntrega, varsFinais>>

\* lines 1111-1141: the counter is read again: at the limit the pattern
\* changes and the counter is reset (line 1128), below it the counter is
\* raised once more (line 1141)
enviar_palpite_ErroAdapta ==
    /\ gl_pc = "adapta"
    /\ IF contagem_gales >= max_gales
       THEN /\ PADRAO_ATUAL' = ProximoPadrao(PADRAO_ATUAL)
            /\ contagem_gales' = 0
       ELSE /\ contagem_gales' = contagem_gales + 1
            /\ UNCHANGED PADRAO_ATUAL
    /\ gl_pc' = "gera"
    /\ UNCHANGED <<p_pc, acertos, erros, total, greens_seguidos, reds_seguidos,
                   max_greens_seguidos, max_reds_seguidos, consecutive_errors,
                   tempo_passado, old_definido, ciclos, placar_devido,
                   placar_enviados, limite_no_ciclo, ult_pontuacao, contra_real,
                   reds_reais>>
    /\ UNCHANGED <<e_pc, modo_defensivo, ultimo_palpite, hora_atual, minuto_atual, retorno_e,
                   ramo, excecao>>
    /\ UNCHANGED <<varsSend, varsFeed, varsMonitor, varsReact>>
    /\ UNCHANGED <<varsMain, varsLacos, varsAdmin, varsEntrega, varsFinais>>

NextGales ==
    \/ gerar_e_enviar_palpite
    \/ enviar_palpite_Gera
    \/ enviar_palpite_Acerto
    \/ enviar_palpite_ErroSoma
    \/ enviar_palpite_ErroAdapta

(***************************************************************************)
(* Part 11: the reads of the cache by the picker (specification            *)
(* SpecLeitura).  estrategia_alta_assertividade calls the feed at line 527 *)
(* and then subscripts the global resultados_anteriores three times, at    *)
(* lines 530, 531 and 532: each is a load of the global as it is at that   *)
(* moment.  The call followed here runs on the thread "cmd" (a command     *)
(* handler's thread, lines 1371 and 1562), while the thread "loop" (the    *)
(* posting loop, line 1034) runs the feed of Part 2.                       *)
(***************************************************************************)

\* lines 530-532: the keys read, in the order of the statements
ChavesLidas == <<"ultimos_10", "tendencia", "frequencia">>

InitLeitura == e_lidos = <<>>

\* line 527: the picker calls the feed
estrategia_Atualiza ==
    /\ e_lidos = <<>>
    /\ n_calls["cmd"] = 0
    /\ atualizar_Call("cmd")

\* lines 530, 531, 532: the next of the three subscripts, on the record the
\* global names now
estrategia_Le ==
    /\ n_calls["cmd"] > 0
    /\ f_pc["cmd"] = "idle"
    /\ Len(e_lidos) < Len(ChavesLidas)
    /\ e_lidos' = Append(e_lidos, resultados_anteriores)
    /\ UNCHANGED <<varsPalpiteCmd, ult_espera, st_pc>>
    /\ UNCHANGED <<varsBase, varsMain, varsLacos, varsAdmin, varsEntrega, varsGales>>

NextLeitura ==
    \/ Tick
    \/ estrategia_Atualiza
    \/ estrategia_Le
    \/ atualizar_Call("loop")
    \/ \E t \in Threads : atualizar_Api(t)
    \/ \E t \in Threads : atualizar_Html(t)
    \/ \E t \in Threads : atualizar_SimSeed(t)
    \/ \E t \in Threads : atualizar_SimNovo(t)
    \/ \E t \in Threads : atualizar_SimWindow(t)
    \/ \E t \in Threads : atualizar_Update(t)
    \/ \E t \in Threads : atualizar_Return(t)

(***************************************************************************)
(* Part 12: the /palpite command (specification SpecPalpiteCmd).  The      *)
(* handler starts a thread (line 1646) that asks gerar_palpite_com_animacao*)
(* for a pick, reads the current outcome from the feed and scores the pick *)
(* itself (lines 1566-1588), then sends the pick to the user.  The pick is *)
(* whatever gerar_palpite_com_animacao returns: on every path the tuple    *)
(* (label, gales, defesa) (lines 795, 877-880, 896, 899).                  *)
(***************************************************************************)

\* a Python value that is a tuple (label, gales, defesa)
Tupla(label, gales, defesa) ==
    [tipo |-> "tuple", label |-> label, gales |-> gales, defesa |-> defesa]

SemPalpite == [tipo |-> "none", label |-> "none", gales |-> 0, defesa |-> FALSE]

\* lines 504-511: the emojis each label starts with, before its first space
Emojis(label) ==
    CASE label = LaranjaAzul     -> <<Laranja, Azul>>
      [] label = LaranjaVermelho -> <<Laranja, Vermelho>>
      [] label = SoLaranja       -> <<Laranja>>
      [] label = SoAzul          -> <<Azul>>
      [] label = SoVermelho      -> <<Vermelho>>
      [] label = AzulVermelho    -> <<Azul, Vermelho>>

\* str.startswith for a prefix made of emojis
ComecaPor(label, pre) ==
    /\ Len(pre) <= Len(Emojis(label))
    /\ SubSeq(Emojis(label), 1, Len(pre)) = pre

\* lines 1573-1582: the chain of startswith tests on a str
AcertouCmd(label, resultado_real) ==
    IF ComecaPor(label, <<Laranja, Azul>>) THEN resultado_real \in {Laranja, Azul}
    ELSE IF ComecaPor(label, <<Laranja, Vermelho>>) THEN resultado_real \in {Laranja, Vermelho}
    ELSE IF ComecaPor(label, <<Laranja>>) THEN resultado_real = Laranja
    ELSE IF ComecaPor(label, <<Azul>>) THEN resultado_real = Azul
    ELSE IF ComecaPor(label, <<Vermelho>>) THEN resultado_real = Vermelho
    ELSE FALSE

\* line 1573: a tuple has no attribute startswith
LevantaAttributeError(palpite) == palpite.tipo = "tuple"

\* lines 1553-1557
InitPalpiteCmd ==
    /\ cmd_pc = "idle"
    /\ cmd_palpite = SemPalpite
    /\ cmd_resultado_real = "none"
    /\ cmd_acertou = FALSE
    /\ cmd_excecao = "none"

\* lines 1549-1559: the command starts the thread, which gets its pick
palpite_cmd_Gera ==
    /\ cmd_pc = "idle"
    /\ Len(prediction_messages) < MaxMsgs
    /\ \E label \in Range(estrategias), gales \in 0..max_gales, defesa \in BOOLEAN :
         cmd_palpite' = Tupla(label, gales, defesa)
    /\ cmd_pc' = "gerado"
    /\ cmd_resultado_real' = "none"
    /\ cmd_acertou' = FALSE
    /\ cmd_excecao' = "none"
    /\ UNCHANGED <<e_lidos, ult_espera, st_pc>>
    /\ UNCHANGED <<varsBase, varsMain, varsLacos, varsAdmin, varsEntrega, varsGales>>

\* lines 1562-1563: the current outcome the feed returns ("none": the record
\* has no outcome)
palpite_cmd_Consulta ==
    /\ cmd_pc = "gerado"
    /\ \E r \in Cores \cup {"none"} : cmd_resultado_real' = r
    /\ cmd_pc' = "consultado"
    /\ UNCHANGED <<cmd_palpite, cmd_acertou, cmd_excecao>>
    /\ UNCHANGED <<e_lidos, ult_espera, st_pc>>
    /\ UNCHANGED <<varsBase, varsMain, varsLacos, varsAdmin, varsEntrega, varsGales>>

\* lines 1566-1588: the pick is scored; with no outcome the hit is drawn
\* (line 1587)
palpite_cmd_Pontua ==
    /\ cmd_pc = "consultado"
    /\ IF cmd_resultado_real # "none"
       THEN IF LevantaAttributeError(cmd_palpite)
            THEN /\ cmd_excecao' = "AttributeError"
                 /\ cmd_pc' = "excecao"
                 /\ UNCHANGED cmd_acertou
            ELSE /\ cmd_acertou' = AcertouCmd(cmd_palpite.label, cmd_resultado_real)
                 /\ cmd_pc' = "pontuado"
                 /\ UNCHANGED cmd_excecao
       ELSE /\ \E sorte \in BOOLEAN : cmd_acertou' = sorte
            /\ cmd_pc' = "pontuado"
            /\ UNCHANGED cmd_excecao
    /\ UNCHANGED <<cmd_palpite, cmd_resultado_real>>
    /\ UNCHANGED <<e_lidos, ult_espera, st_pc>>
    /\ UNCHANGED <<varsBase, varsMain, varsLacos, varsAdmin, varsEntrega, varsGales>>

\* lines 1590-1640: the message with the pick is sent to the user and an
\* entry for it is stored (line 1637); a send that raises goes to line 1642
palpite_cmd_Envia ==
    /\ cmd_pc = "pontuado"
    /\ \E e \in {Ok, ErrOther} :
         IF e.ok
         THEN /\ prediction_messages' = Append(prediction_messages, NovaEntrada(cmd_palpite))
              /\ cmd_pc' = "idle"
              /\ UNCHANGED cmd_excecao
         ELSE /\ cmd_pc' = "excecao"
              /\ cmd_excecao' = "Exception"
              /\ UNCHANGED prediction_messages
    /\ UNCHANGED <<cmd_palpite, cmd_resultado_real, cmd_acertou>>
    /\ UNCHANGED <<e_lidos, ult_espera, st_pc>>
    /\ UNCHANGED <<h_pc, h_mid, h_tipo, h_lido, resposta, h_editou, n_callbacks>>
    /\ UNCHANGED <<varsSend, varsFeed, varsPick, varsPlacar, varsMonitor>>
    /\ UNCHANGED <<varsMain, varsLacos, varsAdmin, varsEntrega, varsGales>>

\* lines 1642-1643: the exception is reported to the user and the thread ends
palpite_cmd_Erro ==
    /\ cmd_pc = "excecao"
    /\ cmd_pc' = "idle"
    /\ UNCHANGED <<cmd_palpite, cmd_resultado_real, cmd_acertou, cmd_excecao>>
    /\ UNCHANGED <<e_lidos, ult_espera, st_pc>>
    /\ UNCHANGED <<varsBase, varsMain, varsLacos, varsAdmin, varsEntrega, varsGales>>

NextPalpiteCmd ==
    \/ palpite_cmd_Gera
    \/ palpite_cmd_Consulta
    \/ palpite_cmd_Pontua
    \/ palpite_cmd_Envia
    \/ palpite_cmd_Erro

(***************************************************************************)
(* Part 13: the waiting message of a cycle (specification SpecEspera).     *)
(* After the delivery of Part 6 the posting loop sends a transient message *)
(* (line 1310), sleeps 20 seconds and deletes it (line 1318).  Both calls  *)
(* are addressed to canal_id, the variable of the for loop of line 1177,   *)
(* as that loop left it.                                                   *)
(***************************************************************************)

\* lines 1177-1179: the place in canal_ids of the value the loop leaves in
\* canal_id.  After the destination k accepted, the for statement binds the
\* next entry before the test of line 1178 breaks; when the list is exhausted
\* canal_id keeps its last entry.  (Line 1214 rebinds the name canal_ids, not
\* the list the loop iterates over.)
CanalDepoisDoLaco(k) == IF k = 0 THEN NumCanais ELSE Min(k + 1, NumCanais)

InitEspera == ult_espera = SemEspera

\* lines 1296-1327: the waiting message; e is the outcome of the send of line
\* 1310, apagou whether the delete of line 1318 went through
enviar_palpite_Espera ==
    /\ ult_entrega.privado \in {"aceite", "falhou", "nao_tentado"}
    /\ ult_espera = SemEspera
    /\ \E e \in {Ok, ErrOther}, apagou \in BOOLEAN :
         ult_espera' = [para |-> CanalDepoisDoLaco(ult_entrega.canal),
                        enviada |-> e.ok, apagada |-> e.ok /\ apagou]
    /\ UNCHANGED <<e_lidos, varsPalpiteCmd, st_pc>>
    /\ UNCHANGED <<varsBase, varsMain, varsLacos, varsAdmin, varsEntrega, varsGales>>

\* line 926: the next cycle starts when the waits of the last one are over
enviar_palpite_ProximoCiclo ==
    /\ ult_entrega = SemEntrega \/ ult_espera # SemEspera
    /\ enviar_palpite_Canais

NextEspera ==
    \/ enviar_palpite_ProximoCiclo
    \/ enviar_palpite_Privado
    \/ enviar_palpite_Espera
    \/ \E u \in Usuarios : start_cmd(u)

(***************************************************************************)
(* Part 14: /start on the handler threads (specification SpecStart).  The  *)
(* bot is threaded (line 136): the /start of each user runs on a worker    *)
(* thread, and the test of line 1341 and the assignment of line 1342 are   *)
(* two statements with no lock.  The posting loop reads the global for its *)
(* private fallback (Part 6).                                              *)
(***************************************************************************)

InitStart == st_pc = [u \in Usuarios |-> "idle"]

\* line 1341: if PRIMEIRO_USUARIO_ID is None
start_cmd_Testa(u) ==
    /\ st_pc[u] = "idle"
    /\ st_pc' = [st_pc EXCEPT ![u] = IF PRIMEIRO_USUARIO_ID = Nenhum THEN "atribui" ELSE "resto"]
    /\ UNCHANGED <<e_lidos, varsPalpiteCmd, ult_espera>>
    /\ UNCHANGED <<varsBase, varsMain, varsLacos, varsAdmin, varsEntrega, varsGales>>

\* line 1342: PRIMEIRO_USUARIO_ID = user_id
start_cmd_Atribui(u) ==
    /\ st_pc[u] = "atribui"
    /\ PRIMEIRO_USUARIO_ID' = u
    /\ st_pc' = [st_pc EXCEPT ![u] = "resto"]
    /\ UNCHANGED ult_entrega
    /\ UNCHANGED <<e_lidos, varsPalpiteCmd, ult_espera>>
    /\ UNCHANGED <<varsBase, varsMain, varsLacos, varsAdmin, varsGales>>

\* lines 1345-1378: the welcome message and the thread of the first pick
start_cmd_Resto(u) ==
    /\ st_pc[u] = "resto"
    /\ st_pc' = [st_pc EXCEPT ![u] = "idle"]
    /\ UNCHANGED <<e_lidos, varsPalpiteCmd, ult_espera>>
    /\ UNCHANGED <<varsBase, varsMain, varsLacos, varsAdmin, varsEntrega, varsGales>>

NextStart ==
    \/ \E u \in Usuarios : start_cmd_Testa(u)
    \/ \E u \in Usuarios : start_cmd_Atribui(u)
    \/ \E u \in Usuarios : start_cmd_Resto(u)
    \/ enviar_palpite_Canais
    \/ enviar_palpite_Privado

\* the parts after Part 10 as they start
InitFinais == InitLeitura /\ InitPalpiteCmd /\ InitEspera /\ InitStart

\* the parts after Part 6 as they start
InitResto == InitMain /\ InitLacos /\ InitAdmin /\ InitEntrega /\ InitGales /\ InitFinais

Init ==
    InitSend /\ InitFeed /\ InitPick /\ InitPlacar /\ InitMonitor /\ InitReact /\ InitResto

SpecSend == Init /\ [][NextSend]_vars

SpecAdmin == Init /\ [][NextAdmin]_vars

\* the thread that runs the call keeps running: every sleep of lines 226, 230
\* and 240 is finite and bot.send_message returns or raises
SpecSendFair ==
    Init /\ [][NextSend]_vars /\ WF_vars(enviar_Attempt) /\ WF_vars(enviar_Return)

SpecFeed == Init /\ [][NextFeed]_vars

\* the picker called with any value the loop can have left in its two globals
InitComGlobals ==
    InitSend /\ InitFeed /\ InitPickGlobals /\ InitPlacar /\ InitMonitor /\ InitReact /\ InitResto

SpecPick == InitComGlobals /\ [][NextPick]_vars

\* the posting loop at its start and at two later points of a run
InitComPlacar ==
    InitSend /\ InitFeed /\ InitPick /\ InitPlacarAlcancavel /\ InitMonitor /\ InitReact /\ InitResto

SpecPlacar == InitComPlacar /\ [][NextPlacar]_vars

\* the thread of the loop keeps running: every sleep and every request of an
\* iteration is finite
SpecPlacarFair == InitComPlacar /\ [][NextPlacar]_vars /\ WF_vars(NextPlacar)

SpecMonitor == Init /\ [][NextMonitor]_vars

SpecReact == Init /\ [][NextReact]_vars

SpecEntrega == Init /\ [][NextEntrega]_vars

SpecGales == Init /\ [][NextGales]_vars

SpecMain == Init /\ [][NextMain]_vars

SpecLeitura == Init /\ [][NextLeitura]_vars

SpecPalpiteCmd == Init /\ [][NextPalpiteCmd]_vars

SpecEspera == Init /\ [][NextEspera]_vars

SpecStart == Init /\ [][NextStart]_vars

\* the process once main() has started the two loops
InitComLacos ==
    /\ InitSend /\ InitFeed /\ InitPick /\ InitPlacarDe(PlacarApos200)
    /\ InitMonitor /\ InitReact
    /\ InitMainPolling /\ InitLacos /\ InitAdmin /\ InitEntrega /\ InitGales /\ InitFinais

\* Each thread keeps running while the process lives.  No fairness is asked
\* of monitor_Polling, a call that may block for ever, nor of the arrival of
\* a signal; the handler that cleared the flag goes on to line 124.
FairLacos ==
    /\ WF_vars(enviar_palpite_Placar)
    /\ WF_vars(enviar_palpite_Reinicio)
    /\ WF_vars(enviar_palpite_Fim)
    /\ WF_vars(monitor_Testa)
    /\ WF_vars(monitor_Verifica)
    /\ WF_vars(monitor_Reinicia)
    /\ WF_vars(monitor_Processa)
    /\ WF_vars(signal_handler_Exit)
    /\ WF_vars(wrapper_Apos)
    /\ WF_vars(processo_Termina)

SpecLacos == InitComLacos /\ [][NextLacos]_vars /\ FairLacos

(***************************************************************************)
(* Claims about enviar_mensagem_resiliente (checked under SpecSend).       *)
(***************************************************************************)

\* the last send of the call failed with a text containing "chat not found"
LastWasChatNotFound == last_ev.kind # "none" /\ ~last_ev.err.ok /\ last_ev.err.cnf

\* the last send of the call failed with a rate-limit text with a parsable hint
LastWasRateHint ==
    last_ev.kind # "none" /\ ~last_ev.err.ok /\ last_ev.err.rate /\ last_ev.err.hint >= 0

\* every send goes to the current chat, and the helper never steps back in the list
SendsInListOrder ==
    [][(sm_pc = "loop" /\ sm_pc' # "idle")
         => /\ idx' \in {idx, idx + 1}
            /\ \A k \in DOMAIN n_sends :
                 n_sends'[k] # n_sends[k] => (k = idx /\ n_sends'[k] = n_sends[k] + 1)]_vars

\* after a send failed with "chat not found": no sleep, that attempt was the
\* chat's last, and the next chat (if any) is about to get its first attempt
C1_AfterChatNotFound ==
    LastWasChatNotFound =>
        /\ last_ev.slept = 0
        /\ n_sends[last_ev.target] = last_ev.att + 1
        /\ IF last_ev.target < Len(chat_ids)
              THEN sm_pc = "loop" /\ idx = last_ev.target + 1 /\ attempt = 0
                   /\ n_sends[idx] = 0
              ELSE sm_pc \in {"return", "idle"}

\* the chat after a "chat not found" accepts its first attempt: the loops end
\* with success set and the message of that chat
C1_NextTargetAccepts ==
    [][(LastWasChatNotFound /\ sm_pc = "loop" /\ last_ev'.err.ok)
         => /\ last_ev'.target = last_ev.target + 1
            /\ last_ev'.att = 0
            /\ sm_pc' = "return"
            /\ success' /\ sent_msg' = chat_ids[last_ev.target + 1]]_vars

\* line 246: the call returns its locals sent_msg and success
ReturnsLocals ==
    [][(sm_pc = "return" /\ sm_pc' = "idle") => resultado' = <<sent_msg, success>>]_vars

\* C1: after a send fails with "chat not found" the helper has not slept, has
\* made no further attempt on that chat (the attempt that failed was its last),
\* and is about to make the first attempt on the next chat of the list (or
\* returns if there is none); when that next chat accepts its first attempt the
\* call returns (message sent to that chat, True).
C1_ChatNotFoundSkipsTarget ==
    /\ [](C1_AfterChatNotFound)
    /\ C1_NextTargetAccepts
    /\ ReturnsLocals
    /\ SendsInListOrder

\* C1's case: the first chat answered "chat not found" on its first attempt (the
\* only way to leave a chat after one attempt when retry_count >= 2 without a
\* success), the second chat accepted its first attempt, and the call returned.
C1_Witness ==
    /\ sm_pc = "idle"
    /\ Len(chat_ids) >= 2 /\ retry_count >= 2
    /\ n_sends[1] = 1 /\ n_sends[2] = 1
    /\ resultado = <<chat_ids[2], TRUE>>

\* C2 (as stated): after a rate-limit error with a parsable "retry after N" the
\* helper has slept N+1 seconds, has left the backoff alone, and makes its next
\* send attempt on the same chat.
C2_Original ==
    LastWasRateHint =>
        /\ last_ev.slept = Secs(last_ev.err.hint + 1)
        /\ backoff = last_ev.before
        /\ sm_pc = "loop" /\ idx = last_ev.target

\* C2 (amended): after a rate-limit error with a parsable "retry after N" the
\* helper has slept N+1 >= N seconds and has left the backoff of that chat
\* alone; its next attempt is on the same chat if that chat has attempts left
\* (attempt + 1 < retry_count); a rate-limit on the chat's last attempt ends the
\* chat: the helper moves to the next chat, or returns.
C2_RateLimitHint ==
    LastWasRateHint =>
        /\ last_ev.slept = Secs(last_ev.err.hint + 1)
        /\ last_ev.slept >= Secs(last_ev.err.hint)
        /\ IF last_ev.att + 1 < retry_count
              THEN /\ sm_pc = "loop" /\ idx = last_ev.target
                   /\ attempt = last_ev.att + 1
                   /\ backoff = last_ev.before
              ELSE \/ sm_pc = "loop" /\ idx = last_ev.target + 1 /\ attempt = 0
                      /\ backoff = Secs(timeout)
                   \/ sm_pc \in {"return", "idle"} /\ backoff = last_ev.before

\* C2's case: a "retry after 3" on an attempt that is not the chat's last, after
\* the backoff had already grown; the helper slept 4 s and stays on the chat.
C2_Witness ==
    /\ LastWasRateHint
    /\ last_ev.err.hint = 3
    /\ last_ev.before > Secs(timeout)
    /\ last_ev.slept = Secs(4)
    /\ sm_pc = "loop" /\ idx = last_ev.target /\ attempt = last_ev.att + 1

\* a send attempt succeeded in the current (or last) call
SomeAttemptSucceeded == (last_ev.kind # "none" /\ last_ev.err.ok) \/ n_after_ok > 0

\* chats before the current one have been tried, those after it not yet;
\* nothing was sent after a success; the returned pair tells whether a send
\* succeeded
C3_State ==
    /\ n_after_ok = 0
    /\ \A k \in DOMAIN n_sends :
         /\ k < idx => n_sends[k] >= 1
         /\ k > idx => n_sends[k] = 0
    /\ ~(success /\ sm_pc = "loop")
    /\ sm_pc = "idle" =>
         /\ resultado[2] = SomeAttemptSucceeded
         /\ (resultado[1] # None) = resultado[2]

\* C3: chats are tried strictly in list order, nothing is sent after a success
\* (the loops end at the first one), the returned flag is True iff some
\* attempt succeeded, and the returned message is non-null iff the flag is True.
C3_OrderAndFirstSuccess ==
    /\ [](C3_State)
    /\ SendsInListOrder
    /\ ReturnsLocals

\* C3's case: the first chat used up its attempts, the second accepted, the
\* third was never tried, and the call returned the second chat's message.
C3_Witness ==
    /\ sm_pc = "idle"
    /\ Len(chat_ids) = 3
    /\ retry_count >= 2 /\ n_sends[1] = retry_count
    /\ n_sends[2] >= 1 /\ n_sends[3] = 0
    /\ resultado = <<chat_ids[2], TRUE>>

\* C4 (as stated): with timeout=2, a sleep after a generic error never exceeds
\* 15 s and a sleep after a rate-limit error without a parsable hint never
\* exceeds 30 s.
C4_Original ==
    /\ last_ev.kind = "other" => last_ev.slept <= Secs(15)
    /\ last_ev.kind = "rate_nohint" => last_ev.slept <= Secs(30)

\* C4 (amended): with timeout=2, no backoff sleep (after a generic error or a
\* rate-limit error without a parsable hint) exceeds 30 s; a sleep after a
\* generic error stays within 15 s unless an earlier rate-limit error without
\* a parsable hint had doubled the backoff of that chat.
C4_BackoffCaps ==
    /\ last_ev.kind \in {"other", "rate_nohint"} => last_ev.slept <= Secs(30)
    /\ last_ev.kind \in {"other", "rate_nohint"} => last_ev.slept = last_ev.before
    /\ (last_ev.kind = "other" /\ last_ev.slept > Secs(15)) => last_ev.doubled
    /\ backoff <= Secs(30)

\* C4's case: a generic error slept more than 15 s (16 s after three doublings).
C4_Witness ==
    /\ last_ev.kind = "other"
    /\ last_ev.slept > Secs(15)
    /\ last_ev.slept <= Secs(30)

\* the bot.send_message calls of the current call, over all its targets
RECURSIVE SumSeq(_)
SumSeq(q) == IF q = <<>> THEN 0 ELSE q[1] + SumSeq(Tail(q))

C28_State ==
    /\ \A k \in DOMAIN n_sends : n_sends[k] <= retry_count
    /\ SumSeq(n_sends) <= Len(chat_ids) * retry_count

\* C28: every call of enviar_mensagem_resiliente terminates: each target gets
\* at most retry_count send attempts whatever the errors (a rate-limit wait
\* uses up an attempt too), the call makes at most |targets| x retry_count
\* attempts, and it returns.
C28_BoundedAndTerminates ==
    /\ []C28_State
    /\ (sm_pc = "loop") ~> (sm_pc = "return")

\* the call about to return after every target used up all its attempts, the
\* last of them on a rate-limit wait
C28_Witness ==
    /\ sm_pc = "return"
    /\ Len(chat_ids) = MaxTargets
    /\ retry_count = MaxRetry
    /\ \A k \in DOMAIN n_sends : n_sends[k] = retry_count
    /\ last_ev.kind = "rate_hint"

(***************************************************************************)
(* Claims about atualizar_resultados_elephant (checked under SpecFeed).    *)
(***************************************************************************)
TierOrder == <<"api", "html", "sim">>

\* where a call stands, the tiers it has entered and whether it has a result
C5_State ==
    \A t \in Threads :
        /\ tiers_run[t] = SubSeq(TierOrder, 1, Len(tiers_run[t]))
        /\ f_pc[t] = "api" => tiers_run[t] = <<>>
        /\ f_pc[t] = "html" => tiers_run[t] = <<"api">> /\ novo_resultado[t] = "none"
        /\ f_pc[t] = "sim_seed" =>
               tiers_run[t] = <<"api", "html">> /\ novo_resultado[t] = "none"
        /\ f_pc[t] \in {"sim_novo", "sim_window"} => tiers_run[t] = TierOrder
        /\ f_pc[t] = "update" => tiers_run[t] # <<>> /\ novo_resultado[t] # "none"

\* once the call has its result it enters no further tier
C5_NoTierAfterResult ==
    [][\A t \in Threads :
          novo_resultado[t] # "none" => tiers_run'[t] \in {tiers_run[t], <<>>}]_vars

\* C5: in every call that refreshes, the tiers are entered in the order API,
\* HTML, simulation: the page is fetched only when the API tier has run and
\* left no result, the simulation starts only when both have run and left no
\* result, and once a tier has produced the result no later tier is entered.
C5_TierPriority == [](C5_State) /\ C5_NoTierAfterResult

\* C5's case: the API tier failed, the page gave the result, and the call is
\* about to store it without having simulated.
C5_Witness ==
    \E t \in Threads :
        /\ f_pc[t] = "update"
        /\ tiers_run[t] = <<"api", "html">>
        /\ novo_resultado[t] # "none"

\* C6: the function never raises and returns a result record whatever fails;
\* when both network tiers failed in the call, the record returned carries a
\* simulated current outcome.
C6_Original ==
    \A t \in Threads :
        (f_pc[t] = "idle" /\ n_calls[t] > 0) =>
            /\ retorno[t].tier # "none"
            /\ retorno[t].ultimos_10 # <<>>
            /\ "sim" \in {tiers_run[t][i] : i \in 1..Len(tiers_run[t])} =>
                   /\ retorno[t].tier = "sim"
                   /\ retorno[t].resultado_atual \in Cores

\* C7: under any interleaving of the calls, a call made less than 10 seconds
\* after the last refresh makes no HTTP request, and every refresh is stamped at
\* least 10 seconds after the refresh it replaces.
C7_Original ==
    /\ last_gap >= TTL
    /\ \A t \in Threads :
         f_pc[t] \in {"api", "html"} => ~CacheFresh(tempo_atual[t], resultados_anteriores)

\* C8: after every refresh the recorded source names the tier that produced
\* the stored outcome.
C8_Original ==
    resultados_anteriores.tier # "init" =>
        /\ resultados_anteriores.fonte = "API Elephant Bet"
              <=> resultados_anteriores.tier = "api"
        /\ resultados_anteriores.fonte = "Web Scraping"
              <=> resultados_anteriores.tier = "html"
        /\ resultados_anteriores.fonte = "Simulacao (Fallback)"
              <=> resultados_anteriores.tier = "sim"

\* C9: two refreshes simulated within the same minute store the same simulated
\* current outcome and the same simulated window.
C9_Original ==
    \A a, b \in sim_log : a[1] = b[1] => a = b

\* C10: in every reachable state of the cache, the initial record included, the
\* window has between 1 and 10 entries, each frequency is the count of its
\* symbol in the window divided by the window's length, and the three
\* frequencies sum to 1.
C10_Original ==
    LET r == resultados_anteriores
        n == Len(r.ultimos_10)
    IN  /\ n >= 1 /\ n <= WindowMax
        /\ \A c \in Cores : r.frequencia[c].num * n = Contador(r.ultimos_10)[c] * r.frequencia[c].den
        /\ \A c \in Cores : r.frequencia[c].den = r.frequencia[Vermelho].den
        /\ r.frequencia[Vermelho].num + r.frequencia[Azul].num + r.frequencia[Laranja].num
             = r.frequencia[Vermelho].den

(***************************************************************************)
(* Claims about estrategia_alta_assertividade (checked under SpecPick).    *)
(***************************************************************************)

\* the window the call read (line 530)
Lidos == resultados_anteriores.ultimos_10

\* the call returned from the body, not from the except clause
Devolveu == e_pc = "done" /\ ~excecao

\* C11: for every window of length >= 3 whose last 3 entries are equal, and
\* every hour, minute and prior pick, the call returns from the 3-in-a-row
\* branch, never from the absence or hour branches: in defensive mode Azul ->
\* Vermelho, Vermelho -> Azul, Laranja -> one colour chosen by the hour; in
\* normal mode Azul -> Laranja e Vermelho, Vermelho -> Laranja e Azul, Laranja
\* -> one of those two pairs chosen by the parity of the minute.
C11_StreakBranch ==
    (Devolveu /\ Len(Lidos) >= 3
        /\ Lidos[Len(Lidos)] = Lidos[Len(Lidos) - 1]
        /\ Lidos[Len(Lidos)] = Lidos[Len(Lidos) - 2])
    => LET cor == Lidos[Len(Lidos)]
           p   == retorno_e[1]
       IN  /\ ramo = "sequencia"
           /\ retorno_e[3] =>
                /\ cor = Azul => p = SoVermelho
                /\ cor = Vermelho => p = SoAzul
                /\ cor = Laranja => p = (IF hora_atual >= 12 THEN SoVermelho ELSE SoAzul)
           /\ ~retorno_e[3] =>
                /\ cor = Azul => p = LaranjaVermelho
                /\ cor = Vermelho => p = LaranjaAzul
                /\ cor = Laranja =>
                     p = (IF minuto_atual % 2 = 0 THEN LaranjaVermelho ELSE LaranjaAzul)

\* a run of five Laranja in the morning, in defensive mode: the streak branch
\* bets Azul where the absence branch would bet Vermelho
C11_Witness ==
    /\ Devolveu
    /\ Lidos = <<Laranja, Laranja, Laranja, Laranja, Laranja>>
    /\ hora_atual = 6
    /\ retorno_e[3]
    /\ ultimo_palpite = SoAzul
    /\ retorno_e[1] = SoAzul

\* the colours with no occurrence among the last five entries read
SemOcorrencia == {c \in Cores : \A i \in 1..Len(Lidos) : i > Len(Lidos) - 5 => Lidos[i] # c}

\* C12: for every window of length >= 5 in which some colour has no occurrence
\* among the trailing 5 entries and whose last 3 entries are not all equal, the
\* call returns a pick that equals or includes that colour: in defensive mode
\* the colour alone; in normal mode the pair containing it (Laranja e Azul for
\* Azul, Laranja e Vermelho for Vermelho), except Laranja, always bet alone.
C12_AbsenceBranch ==
    (Devolveu /\ Len(Lidos) >= 5 /\ SemOcorrencia # {}
        /\ ~(Lidos[Len(Lidos)] = Lidos[Len(Lidos) - 1]
             /\ Lidos[Len(Lidos)] = Lidos[Len(Lidos) - 2]))
    => \E c \in SemOcorrencia :
         LET p == retorno_e[1] IN
         /\ c = Laranja => p = SoLaranja
         /\ (c = Azul /\ retorno_e[3]) => p = SoAzul
         /\ (c = Azul /\ ~retorno_e[3]) => p = LaranjaAzul
         /\ (c = Vermelho /\ retorno_e[3]) => p = SoVermelho
         /\ (c = Vermelho /\ ~retorno_e[3]) => p = LaranjaVermelho
         /\ resultado_mapa[c][p]

\* no Azul among the last five outcomes, at night, in defensive mode: Azul is
\* bet alone where the night branch would bet Vermelho
C12_Witness ==
    /\ Devolveu
    /\ Lidos = <<Vermelho, Laranja, Vermelho, Laranja, Vermelho>>
    /\ hora_atual = 18
    /\ retorno_e[3]
    /\ ramo = "ausencia"
    /\ retorno_e[1] = SoAzul

\* the label a branch chooses before any look at the prior pick
Natural ==
    CASE ramo = "sequencia" ->
            PalpiteSequencia(Lidos[Len(Lidos)], retorno_e[3], hora_atual, minuto_atual)
      [] ramo = "ausencia" -> PalpiteAusencia(CorAusente(Lidos), retorno_e[3])
      [] ramo = "manha" -> IF retorno_e[3] THEN SoAzul ELSE LaranjaAzul
      [] ramo = "tarde" -> PalpiteTarde(Lidos, resultados_anteriores.tendencia, minuto_atual)
      [] ramo = "noite" -> IF retorno_e[3] THEN SoVermelho ELSE LaranjaVermelho
      [] OTHER -> IF retorno_e[3] THEN SoLaranja ELSE PalpiteMadrugada(minuto_atual)

\* the labels a branch can return in a mode: its option set
Opcoes ==
    CASE ramo = "sequencia" ->
            IF retorno_e[3] THEN {SoVermelho, SoAzul} ELSE {LaranjaVermelho, LaranjaAzul}
      [] ramo = "ausencia" ->
            IF retorno_e[3] THEN {SoLaranja, SoAzul, SoVermelho}
            ELSE {SoLaranja, LaranjaAzul, LaranjaVermelho}
      [] ramo = "manha" -> IF retorno_e[3] THEN {SoAzul} ELSE {LaranjaAzul}
      [] ramo = "tarde" -> {LaranjaVermelho, LaranjaAzul, SoLaranja}
      [] ramo = "noite" ->
            IF retorno_e[3] THEN {SoVermelho} ELSE {LaranjaVermelho, LaranjaAzul}
      [] OTHER ->
            IF retorno_e[3] THEN {SoLaranja} ELSE {LaranjaAzul, LaranjaVermelho, SoLaranja}

\* C13: in every branch (streak, absence, each hour bucket in each mode), if
\* the label the branch would naturally choose equals the prior pick and the
\* branch's option set holds another label, the returned pick differs from the
\* prior pick.
C13_Original ==
    (Devolveu /\ Natural = ultimo_palpite /\ Opcoes \ {ultimo_palpite} # {})
    => retorno_e[1] # ultimo_palpite

\* C14: with prediction_generator absent the call returns, for every window,
\* time of day and mode, one of the six labels of estrategias, each of them a
\* key of resultado_mapa for every outcome; when the body raised, the label
\* is Laranja e Azul or Laranja e Vermelho.
C14_TotalAndClosed ==
    (e_pc = "done" /\ ultimo_palpite = NoPalpite)
    => /\ retorno_e[1] \in Range(estrategias)
       /\ \A c \in Cores : retorno_e[1] \in DOMAIN resultado_mapa[c]
       /\ excecao => retorno_e[1] \in {LaranjaAzul, LaranjaVermelho}

\* the body raised and the emergency pick was Laranja e Vermelho
C14_Witness ==
    /\ e_pc = "done"
    /\ excecao
    /\ ultimo_palpite = NoPalpite
    /\ retorno_e[1] = LaranjaVermelho

(***************************************************************************)
(* Claims about enviar_palpite (checked under SpecPlacar).                 *)
(***************************************************************************)

\* C15: after exactly 5 consecutive misses scored against real outcomes, the
\* scoring step that records the fifth miss leaves the counters at the
\* baseline acertos = 0, erros = 5, total = 5.
C15_Original ==
    (p_pc = "placar" /\ ult_pontuacao = "erro" /\ contra_real /\ reds_reais = 5)
    => (acertos = 0 /\ erros = 5 /\ total = 5)

\* C16: when an iteration starts with acertos >= 150 and erros >= 50, its
\* reset block leaves acertos, erros, total, greens_seguidos, reds_seguidos,
\* max_greens_seguidos and max_reds_seguidos at 0 before the next prediction
\* is scored.
C16_Original ==
    (limite_no_ciclo /\ (p_pc = "palpite" \/ ult_pontuacao = "excecao"))
    => /\ acertos = 0 /\ erros = 0 /\ total = 0
       /\ greens_seguidos = 0 /\ reds_seguidos = 0
       /\ max_greens_seguidos = 0 /\ max_reds_seguidos = 0

\* C17: once 600 seconds have passed since the last scoreboard, the next
\* iteration delivers exactly one scoreboard before it generates the next
\* prediction, and an iteration that starts earlier delivers none.
C17_Original ==
    p_pc = "reinicio"
    => /\ placar_devido => placar_enviados = 1
       /\ ~placar_devido => placar_enviados = 0

(***************************************************************************)
(* Claims about BotMonitor (checked under SpecMonitor).                    *)
(***************************************************************************)

\* C18: can_restart returns True iff fewer than restart_limit calls of
\* register_restart were made in the 3600 seconds before it; a check leaves no
\* older timestamp in restart_times; register_restart appends one timestamp
\* and raises restart_count by one, so that restart_count is the number of
\* calls made.
C18_Original ==
    /\ pode # "none" =>
         /\ pode = esperado
         /\ \A i \in 1..Len(restart_times) : c_now - restart_times[i] < JanelaReinicio
    /\ (\A t \in Monitores : r_pc[t] = "idle") => restart_count = Len(chamadas)

(***************************************************************************)
(* Claims about handle_reaction (checked under SpecReact).                 *)
(***************************************************************************)

\* C19: for a message in the store and a known kind, handle_reaction raises
\* the count of that kind on that message by 1 and reports the new count; the
\* counts of the other kinds and messages and the stored labels do not change.
C19_Original ==
    [][\A w \in Workers :
         /\ (h_pc[w] = "escrever" /\ h_pc'[w] = "responder") =>
               prediction_messages' =
                  [prediction_messages EXCEPT ![h_mid[w]].reactions[h_tipo[w]] = @ + 1]
         /\ (h_pc[w] = "responder" /\ h_pc'[w] = "fim") =>
               /\ resposta'[w].texto = "reagiu"
               /\ resposta'[w].total = prediction_messages[h_mid[w]].reactions[h_tipo[w]]
               /\ prediction_messages' = prediction_messages]_vars

\* C20: for a message id that is not in the store, handle_reaction creates no
\* entry, changes no count, edits no message, and answers the callback with
\* the alert that the message is no longer available.
C20_UntrackedFailsSilently ==
    [][\A w \in Workers :
         /\ (h_pc[w] = "idle" /\ h_pc'[w] # "idle"
               /\ h_mid'[w] \notin DOMAIN prediction_messages) =>
               /\ prediction_messages' = prediction_messages
               /\ h_pc'[w] = "fim"
               /\ resposta'[w] = [texto |-> "indisponivel", total |-> 0, alerta |-> TRUE]
               /\ ~h_editou'[w]
         /\ (h_pc[w] = "fim" /\ h_pc'[w] = "idle") =>
               /\ prediction_messages' = prediction_messages
               /\ ~h_editou'[w]]_vars

\* a callback for a message the store never held was answered while the store
\* holds a message with a counted reaction
C20_Witness ==
    \E w \in Workers :
        /\ h_pc[w] = "fim"
        /\ h_mid[w] \notin DOMAIN prediction_messages
        /\ resposta[w].texto = "indisponivel"
        /\ Len(prediction_messages) = 1
        /\ prediction_messages[1].reactions["like"] = 1

\* this step is a send that a destination accepted: a channel, at once or
\* after the rate-limit wait, or the private chat
EnvioAceite ==
    \/ ult_entrega'.privado = "pendente" /\ ult_entrega.privado # "pendente"
          /\ ult_entrega'.canal # 0
    \/ ult_entrega.privado = "pendente" /\ ult_entrega'.privado = "aceite"

\* an entry is created exactly by an accepted send, under the id of the
\* message, with its label and eight zero counts
CriadaNaEntrega ==
    IF EnvioAceite
    THEN prediction_messages' =
            Append(prediction_messages,
                   [prediction |-> ult_entrega'.palpite,
                    reactions |-> [e \in DOMAIN REACTION_EMOJIS |-> 0]])
    ELSE DOMAIN prediction_messages' = DOMAIN prediction_messages

\* no entry is removed and no count decreases
NuncaDiminui ==
    \A mid \in DOMAIN prediction_messages :
        /\ mid \in DOMAIN prediction_messages'
        /\ \A e \in DOMAIN REACTION_EMOJIS :
              prediction_messages'[mid].reactions[e] >= prediction_messages[mid].reactions[e]

\* C26 (as the spec states it): an entry of prediction_messages is created
\* exactly when a destination accepts a prediction message (a channel, a
\* channel after a rate-limit wait, or the private chat), under the message
\* id, with the prediction label and a zero count for each of the 8 reaction
\* kinds; a failed send registers nothing; afterwards no entry is removed and
\* no count ever decreases.
C26_Original == [][CriadaNaEntrega /\ NuncaDiminui]_vars

\* the part of C26 about the creation of entries
C26_Criacao == [][CriadaNaEntrega]_vars

(***************************************************************************)
(* Claims about the main thread (checked under SpecMain).                  *)
(***************************************************************************)

\* C21: when the polling loop of main() fails with an invalid-credentials
\* error (a text containing "401"), the loop exits, the wrapper calls main()
\* again, and the process finally exits with a non-zero status.
C21_Original ==
    (g_pc = "saiu" /\ viu_401 /\ sinal = "none")
    => (main_apos_401 /\ exit_status # 0)

\* C29: the polling loop of main() tolerates at most max_retries = 10 polling
\* failures: the retry delay never exceeds 60 seconds, no polling is started
\* after the 10th failure, and the process then exits with status 1.
C29_Original ==
    /\ m_retry_delay <= Seg(60)
    /\ g_pc = "polling" => m_retry_count < max_retries
    /\ (g_pc = "saiu" /\ esgotado /\ sinal = "none") => exit_status = 1

(***************************************************************************)
(* Claims about the flow of predictions (checked under SpecPlacarFair).    *)
(***************************************************************************)

\* C27: whenever a posting cycle starts with acertos >= 150 and erros >= 50,
\* a new prediction is eventually generated and scored, in that cycle or a
\* later one, as long as the bot keeps running.
C27_Original ==
    (p_pc = "reinicio" /\ acertos >= LimiteAcertos /\ erros >= LimiteErros
       /\ ciclos < MaxCiclos)
    ~> (p_pc = "placar" /\ ult_pontuacao \in {"acerto", "erro"})

(***************************************************************************)
(* Claims about the two loops (checked under SpecLacos).                   *)
(***************************************************************************)

C22_State ==
    /\ p_pc # "morta" /\ ml_pc # "morta"
    /\ p_pc = "fim" => ~running
    /\ ml_pc = "fim" => ~running

\* this step of the posting loop raised an exception: the reset block did
\* not hand over to the prediction
Levantou == p_pc = "reinicio" /\ p_pc' \notin {"reinicio", "palpite", "parada"}

\* C22: nothing propagates past an iteration boundary: an exception raised
\* inside an iteration of the posting loop or of the monitor loop is caught
\* in that iteration, the posting loop sleeps and starts its next iteration,
\* and a loop ends only when bot_monitor.running is False.
C22_NothingEscapes ==
    /\ []C22_State
    /\ [][Levantou => (p_pc' = "placar" /\ tempo_passado' = Passa(tempo_passado, EsperaErro))]_vars

\* both loops started a new iteration after an exception (the monitor loop
\* registers a restart only in the handler of line 1998), the flag still set
C22_Witness ==
    /\ running
    /\ p_pc = "reinicio" /\ ult_pontuacao = "excecao"
    /\ ml_pc = "verifica" /\ restart_count > 0

\* C24: after bot_monitor.running has become False the posting loop and the
\* monitor loop start no new iteration, finish at most the one in progress,
\* and eventually terminate.
C24_StopsAfterFlag ==
    /\ [][~running => /\ ~(p_pc = "placar" /\ p_pc' = "reinicio")
                      /\ ~(ml_pc = "teste" /\ ml_pc' = "verifica")]_vars
    /\ (~running) ~> (p_pc \in LacoTerminado /\ ml_pc \in LacoTerminado)

\* both loops met the cleared flag at the top of an iteration and ended,
\* before the process did
C24_Witness ==
    /\ ~running /\ g_pc # "saiu"
    /\ p_pc = "fim" /\ ult_pontuacao = "excecao"
    /\ ml_pc = "fim"

(***************************************************************************)
(* Claims about the admin gate (checked under SpecAdmin).                  *)
(***************************************************************************)

\* what an admin action leaves behind: a restart recorded, the polling
\* restarted, the log sent
EfeitosAdmin == <<restart_times, restart_count, polling_reinicios, logs_para>>

C23_State ==
    /\ \A u \in Range(admin_chat_ids) : u \in comandos
    /\ a_ult.desfecho = "feito" => a_ult.user \in Range(admin_chat_ids)

PassoPrivado == ult_entrega.privado = "pendente" /\ ult_entrega'.privado # "pendente"

\* C25: in a posting cycle the prediction is sent privately to
\* PRIMEIRO_USUARIO_ID iff no channel destination accepted it in that cycle
\* and a first user is registered; when no destination accepted it and no
\* user is registered, or the private send fails too, no prediction message
\* is delivered (nothing is stored) and the loop goes on to its next cycle.
C25_PrivateFallback ==
    /\ [][PassoPrivado =>
            /\ ult_entrega'.privado \in {"aceite", "falhou"}
                  <=> (ult_entrega.canal = 0 /\ PRIMEIRO_USUARIO_ID # Nenhum)
            /\ (ult_entrega.canal = 0 /\ ult_entrega'.privado # "aceite")
                  => prediction_messages' = prediction_messages
            /\ ult_entrega'.privado = "aceite"
                  => Len(prediction_messages') = Len(prediction_messages) + 1]_vars
    /\ [][(ult_entrega'.privado = "pendente" /\ ult_entrega.privado # "pendente") =>
            (ult_entrega'.canal = 0 <=> prediction_messages' = prediction_messages)]_vars
    /\ [](ult_entrega.privado \notin {"pendente", "none"} =>
            (Len(prediction_messages) < MaxMsgs => ENABLED enviar_palpite_Canais))

\* every destination refused and the registered user received the prediction
C25_Witness ==
    /\ ult_entrega.canal = 0 /\ ult_entrega.privado = "aceite"
    /\ PRIMEIRO_USUARIO_ID # Nenhum
    /\ Len(prediction_messages) = 1

(***************************************************************************)
(* Claims about the scoring of a miss (checked under SpecGales).           *)
(***************************************************************************)

\* C30 (as the spec states it): misses scored by the posting loop never
\* activate defensive mode: whatever the interleaving of the posting loop
\* with the picker calls of the command handlers, modo_defensivo is False in
\* every reachable state.
C30_Original == ~modo_defensivo

\* the posting loop reaches the state the two loops are studied from
PlacarApos200_Reached ==
    /\ p_pc = "placar"
    /\ \A k \in DOMAIN PlacarApos200 \ {"tempo_passado", "consecutive_errors"} :
         PlacarApos200[k] = [acertos |-> acertos, erros |-> erros, total |-> total,
                             greens_seguidos |-> greens_seguidos,
                             reds_seguidos |-> reds_seguidos,
                             max_greens_seguidos |-> max_greens_seguidos,
                             max_reds_seguidos |-> max_reds_seguidos,
                             PADRAO_ATUAL |-> PADRAO_ATUAL][k]
    /\ tempo_passado = PlacarApos200.tempo_passado
    /\ consecutive_errors = PlacarApos200.consecutive_errors

(***************************************************************************)
(* Claims about the race of the handler threads on the reaction counts     *)
(* (checked under SpecReact).                                              *)
(***************************************************************************)

\* the handlers that have run line 1736 for message mid and kind tipo and have
\* not returned yet
JaContaram(mid, tipo) ==
    {w \in Workers : h_pc[w] = "responder" /\ h_mid[w] = mid /\ h_tipo[w] = tipo}

\* C31 (as the spec states it): no reaction is lost: when k callbacks for the
\* same stored message and the same known kind have been counted, in any
\* interleaving of the handler threads, the stored count of that kind on that
\* message is k.  The counts start at 0 and nothing lowers them on purpose,
\* so the count is at least the number of handlers that are past line 1736
\* for that message and kind.
C31_Original ==
    \A mid \in DOMAIN prediction_messages, tipo \in DOMAIN REACTION_EMOJIS :
        prediction_messages[mid].reactions[tipo] >= Cardinality(JaContaram(mid, tipo))

(***************************************************************************)
(* Claims about the picker's reads of the cache (checked under             *)
(* SpecLeitura).                                                           *)
(***************************************************************************)

\* C32 (as the spec states it): each call of estrategia_alta_assertividade
\* decides on one snapshot of the outcome cache: the window (line 530) and the
\* trend (line 531) it uses are read from the same cache record, even when
\* another thread refreshes the cache meanwhile.
C32_Original ==
    Len(e_lidos) >= 2 =>
        /\ e_lidos[2] = e_lidos[1]
        /\ e_lidos[2].tendencia = Tendencia(e_lidos[1].ultimos_10)

\* the window and the trend of a call come from two records, and the trend is
\* not the trend of the window
C32_Misturado ==
    /\ Len(e_lidos) >= 2
    /\ e_lidos[2].tendencia # Tendencia(e_lidos[1].ultimos_10)

(***************************************************************************)
(* Claims about the /palpite command (checked under SpecPalpiteCmd).       *)
(***************************************************************************)

\* C33 (as the spec states it): the /palpite handler scores its pick as the
\* posting loop does: for every outcome and every label the picker can
\* return, the hit or miss palpite_cmd computes is
\* resultado_mapa[outcome][label].
C33_Original ==
    (cmd_pc \in {"pontuado", "excecao"} /\ cmd_resultado_real # "none"
        /\ cmd_excecao # "Exception") =>
        /\ cmd_pc = "pontuado"
        /\ cmd_acertou = resultado_mapa[cmd_resultado_real][cmd_palpite.label]

\* given the label as a str, the chain of lines 1573-1582 differs from the map
\* of lines 277-289 on one pair: the pair bet on blue and red against a red
\* outcome, which the test startswith of blue (line 1579) takes first
C33_CadeiaDifere ==
    \A r \in Cores, label \in Range(estrategias) :
        AcertouCmd(label, r) # resultado_mapa[r][label] <=>
            (label = AzulVermelho /\ r = Vermelho)

(***************************************************************************)
(* Claims about the trend and the order of the window (checked under       *)
(* SpecFeed and SpecPick).                                                 *)
(***************************************************************************)

\* how often colour c occurs in the window w
Vezes(w, c) == Cardinality({i \in 1..Len(w) : w[i] = c})

\* the place of colour c in the key order of contador (line 445)
Lugar(c) == CHOOSE i \in 1..3 : CoresOrdem[i] = c

\* C34: after every refresh the stored trend is a colour whose count in the
\* stored window is the largest, and among the colours that attain the
\* largest count it is the first in the order red, blue, orange.
C34_TrendIsFirstArgmax ==
    resultados_anteriores.tier # "init" =>
        LET w == resultados_anteriores.ultimos_10
            t == resultados_anteriores.tendencia
        IN  /\ t \in Cores
            /\ \A c \in Cores : Vezes(w, c) <= Vezes(w, t)
            /\ \A c \in Cores : Vezes(w, c) = Vezes(w, t) => Lugar(t) <= Lugar(c)

\* a refresh stored a window in which red and orange tie for the largest
\* count, and the trend is red
C34_Witness ==
    /\ resultados_anteriores.tier # "init"
    /\ Vezes(resultados_anteriores.ultimos_10, Vermelho)
          = Vezes(resultados_anteriores.ultimos_10, Laranja)
    /\ Vezes(resultados_anteriores.ultimos_10, Azul)
          < Vezes(resultados_anteriores.ultimos_10, Vermelho)
    /\ resultados_anteriores.tendencia = Vermelho

\* the colours with no occurrence among the five most recent entries read
SemOcorrenciaRecente == {c \in Cores : \A i \in 1..Min(Len(Lidos), 5) : Lidos[i] # c}

\* C35 (as the spec states it): the entries the picker examines are the most
\* recent outcomes.  The feed stores the rounds most recent first (the first
\* entry is the current outcome, lines 368 and 407), so the 3-in-a-row rule
\* fires exactly when the first three entries of the window are equal, and the
\* absence rule fires only when a colour is missing among the first five.
C35_Original ==
    Devolveu =>
        /\ ramo = "sequencia" <=>
              (Len(Lidos) >= 3 /\ Lidos[1] = Lidos[2] /\ Lidos[2] = Lidos[3])
        /\ ramo = "ausencia" => (Len(Lidos) >= 5 /\ SemOcorrenciaRecente # {})

(***************************************************************************)
(* Claims about the bound on restarts (checked under SpecMonitor).         *)
(***************************************************************************)

\* C36 (as the spec states it): the restarts recorded in restart_times within
\* the trailing 3600 seconds never number more than restart_limit (5),
\* whether the monitor loop or the admin_restart action recorded them.
C36_Original == Len(Recentes(restart_times, m_now)) <= restart_limit

(***************************************************************************)
(* Claims about the scoring of a miss by the posting loop (checked under   *)
(* SpecPlacar).                                                            *)
(***************************************************************************)

\* the prediction step of a cycle scores a pick that misses a real outcome
ErraContraReal == p_pc = "palpite" /\ contra_real' /\ ult_pontuacao' # "acerto"

\* C37 (as the spec states it): in every posting cycle where the current
\* outcome is available and the pick misses it, also before any hit has been
\* scored since startup, the scoring step completes, erros increases by 1 and
\* the cycle goes on to deliver its message.
C37_Original ==
    [][ErraContraReal => (ult_pontuacao' = "erro" /\ erros' = erros + 1)]_vars

\* a miss against a real outcome before any hit: the cycle was aborted
C37_AbortadoSemAcerto ==
    /\ ult_pontuacao = "excecao" /\ contra_real /\ consecutive_errors = Unbound
    /\ erros = 0 /\ total = 1

\* C38 (as the spec states it): after every iteration of the posting loop,
\* completed or aborted by an exception, total = acertos + erros.
C38_Original ==
    (ult_pontuacao # "none" /\ p_pc \in {"placar", "morta"}) => total = acertos + erros

(***************************************************************************)
(* Claims about the waiting message (checked under SpecEspera) and about   *)
(* /start (checked under SpecStart).                                       *)
(***************************************************************************)

\* C39 (as the spec states it): in every posting cycle in which a channel
\* destination accepted the prediction, the waiting message is addressed to,
\* and deleted from, the destination that accepted it.
C39_Original ==
    (ult_espera # SemEspera /\ ult_entrega.canal # 0) =>
        ult_espera.para = ult_entrega.canal

\* the first destination accepted the prediction and the waiting message was
\* sent to the second and deleted there
C39_ParaOSeguinte ==
    /\ ult_entrega.canal = 1
    /\ ult_espera = [para |-> 2, enviada |-> TRUE, apagada |-> TRUE]

\* C40 (as the spec states it): PRIMEIRO_USUARIO_ID is written once: the
\* first /start sets it and, once it is not None, no step changes it,
\* whatever the interleaving of the /start handlers.
C40_Original ==
    [][PRIMEIRO_USUARIO_ID # Nenhum => PRIMEIRO_USUARIO_ID' = PRIMEIRO_USUARIO_ID]_vars

====
